---- MODULE Spec2Model ----
(***************************************************************************)
(* Placement engine of the cargo loading planner: free-floor-space         *)
(* tracker (geometry/free_rects.py), candidate and pattern generator       *)
(* (candidates/), constraint gates (constraints/, geometry/aabb.py),       *)
(* scorer and policy (scoring/, constraints/policies.py) and the greedy    *)
(* packer loop (solver/packer.py, catalogs/plan_state.py).                 *)
(*                                                                         *)
(* Lengths are whole centimetres (the source uses metres as floats), and   *)
(* every modelled footprint dimension is an even number of centimetres so  *)
(* that centre coordinates are integers.  The source's tolerances (1e-9,   *)
(* 1e-6 and 1e-3 metres) are all smaller than one centimetre, so on this   *)
(* grid  a <= b + eps  is  a <= b  and  a < b - eps  is  a < b.            *)
(***************************************************************************)
EXTENDS Integers, Sequences, FiniteSets, TLC

VARIABLES
  pc,           \* position of the run: "init", "loop", "return", "done", "raised"; "reserve", "gen", "prune", "pruned"
  items,        \* pack: the input list of units
  vehicle,      \* the vehicle record
  mode,         \* ModeDecision
  items_by_id,  \* PlanState.items_by_id
  remaining,    \* pack: the remaining queue
  placed,       \* PlanState.placed
  unplaced,     \* PlanState.unplaced
  free_rects,   \* PlanState.free_rects.rects
  loads,        \* PlanState.loads
  debug,        \* PlanState.debug (the event trail)
  delivered,    \* the events the debug_log callback was called with
  status,       \* Item.status of every input unit, by input position
  iter,         \* number of loop iterations executed
  last,         \* history: what the last loop iteration generated and did
  placedFrom,   \* history: for every placed entry, the iteration and group it was committed from
  reserved,     \* history: the rectangles handed to FreeRects.reserve
  runs,         \* two pack runs side by side: the locals and PlanState of each
  heap,         \* the list and FreeRects objects the PlanStates of runs refer to
  SETTINGS      \* settings.SETTINGS: the values set in the configuration

vars == <<pc, items, vehicle, mode, items_by_id, remaining, placed, unplaced,
          free_rects, loads, debug, delivered, status, iter, last, placedFrom, reserved,
          runs, heap, SETTINGS>>

-----------------------------------------------------------------------------
(* Generic helpers                                                         *)

Min(a, b) == IF a <= b THEN a ELSE b

Max(a, b) == IF a >= b THEN a ELSE b

Abs(a) == IF a < 0 THEN -a ELSE a

RECURSIVE GCD(_, _)
GCD(a, b) == IF b = 0 THEN a ELSE GCD(b, a % b)

RECURSIVE Concat(_)
\* concatenation of a sequence of sequences
Concat(ss) == IF ss = <<>> THEN <<>> ELSE Head(ss) \o Concat(Tail(ss))

RECURSIVE SumSeq(_)
SumSeq(s) == IF s = <<>> THEN 0 ELSE Head(s) + SumSeq(Tail(s))

Range(s) == {s[i] : i \in DOMAIN s}

\* Optional values: None is the empty sequence, a present value v is <<v>>
None == <<>>

Some(v) == <<v>>

IsNone(o) == o = <<>>

Val(o) == o[1]

-----------------------------------------------------------------------------
(* geometry/free_rects.py -- a Rect is <<minX, maxX, minZ, maxZ>>          *)

rect_area(r) == Max(0, r[2] - r[1]) * Max(0, r[4] - r[3])

rect_contains(big, small) ==
  /\ small[1] >= big[1] /\ small[2] <= big[2]
  /\ small[3] >= big[3] /\ small[4] <= big[4]

rect_intersects(a, b) ==
  /\ ~(a[2] <= b[1] \/ a[1] >= b[2])
  /\ ~(a[4] <= b[3] \/ a[3] >= b[4])

\* a split that loses the strip beyond the used rectangle
split_rect_no_top(free, used) ==
  LET fx0 == free[1]  fx1 == free[2]  fz0 == free[3]  fz1 == free[4]
      ux0 == used[1]  ux1 == used[2]  uz0 == used[3]
      left   == IF ux0 > fx0 THEN << <<fx0, Min(ux0, fx1), fz0, fz1>> >> ELSE <<>>
      right  == IF ux1 < fx1 THEN << <<Max(ux1, fx0), fx1, fz0, fz1>> >> ELSE <<>>
      bottom == IF uz0 > fz0
                THEN << <<Max(fx0, ux0), Min(fx1, ux1), fz0, Min(uz0, fz1)>> >>
                ELSE <<>>
  IN  SelectSeq(left \o right \o bottom, LAMBDA r : rect_area(r) > 0)

\* a split whose strip before the used rectangle spans the whole free rectangle
split_rect_wide_bottom(free, used) ==
  LET fx0 == free[1]  fx1 == free[2]  fz0 == free[3]  fz1 == free[4]
      ux0 == used[1]  ux1 == used[2]  uz0 == used[3]  uz1 == used[4]
      left   == IF ux0 > fx0 THEN << <<fx0, Min(ux0, fx1), fz0, fz1>> >> ELSE <<>>
      right  == IF ux1 < fx1 THEN << <<Max(ux1, fx0), fx1, fz0, fz1>> >> ELSE <<>>
      bottom == IF uz0 > fz0 THEN << <<fx0, fx1, fz0, Min(uz0, fz1)>> >> ELSE <<>>
      top    == IF uz1 < fz1
                THEN << <<Max(fx0, ux0), Min(fx1, ux1), Max(uz1, fz0), fz1>> >>
                ELSE <<>>
  IN  SelectSeq(left \o right \o bottom \o top, LAMBDA r : rect_area(r) > 0)

split_rect(free, used) ==
  LET fx0 == free[1]  fx1 == free[2]  fz0 == free[3]  fz1 == free[4]
      ux0 == used[1]  ux1 == used[2]  uz0 == used[3]  uz1 == used[4]
      left   == IF ux0 > fx0 THEN << <<fx0, Min(ux0, fx1), fz0, fz1>> >> ELSE <<>>
      right  == IF ux1 < fx1 THEN << <<Max(ux1, fx0), fx1, fz0, fz1>> >> ELSE <<>>
      bottom == IF uz0 > fz0
                THEN << <<Max(fx0, ux0), Min(fx1, ux1), fz0, Min(uz0, fz1)>> >>
                ELSE <<>>
      top    == IF uz1 < fz1
                THEN << <<Max(fx0, ux0), Min(fx1, ux1), Max(uz1, fz0), fz1>> >>
                ELSE <<>>
  IN  SelectSeq(left \o right \o bottom \o top, LAMBDA r : rect_area(r) > 0)

RECURSIVE PruneFrom(_, _)
\* the "for i, r in enumerate(rects)" loop of prune_contained, from index i on
PruneFrom(rects, i) ==
  IF i > Len(rects) THEN <<>>
  ELSE (IF \E j \in DOMAIN rects : j # i /\ rect_contains(rects[j], rects[i])
        THEN <<>> ELSE <<rects[i]>>) \o PruneFrom(rects, i + 1)

prune_contained(rects) == PruneFrom(rects, 1)

_almost_equal(a, b) == Abs(a - b) <= 0

_normalize_rect(r) ==
  LET x0 == Min(r[1], r[2])  x1 == Max(r[1], r[2])
      z0 == Min(r[3], r[4])  z1 == Max(r[3], r[4])
  IN  <<x0, x1, z0, z1>>

\* a merge that does not ask the two rectangles to span the same interval
try_merge_any_span(a, b) ==
  IF a[2] >= b[1] /\ b[2] >= a[1] /\ a[4] >= b[3] /\ b[4] >= a[3]
  THEN Some(<<Min(a[1], b[1]), Max(a[2], b[2]), Min(a[3], b[3]), Max(a[4], b[4])>>)
  ELSE None

\* None when the two rectangles do not merge, else Some(merged)
try_merge(a, b) ==
  IF /\ _almost_equal(a[3], b[3]) /\ _almost_equal(a[4], b[4])
     /\ a[2] >= b[1] /\ b[2] >= a[1]
  THEN Some(<<Min(a[1], b[1]), Max(a[2], b[2]), a[3], a[4]>>)
  ELSE IF /\ _almost_equal(a[1], b[1]) /\ _almost_equal(a[2], b[2])
          /\ a[4] >= b[3] /\ b[4] >= a[3]
       THEN Some(<<a[1], a[2], Min(a[3], b[3]), Max(a[4], b[4])>>)
       ELSE None

RECURSIVE MergeScan(_, _, _, _, _, _)
\* one "for j in range(len(cur))" scan of the greedy inner loop
MergeScan(cur, i, merged, used, j, changed) ==
  IF j > Len(cur) THEN [merged |-> merged, used |-> used, changed |-> changed]
  ELSE IF i = j \/ j \in used THEN MergeScan(cur, i, merged, used, j + 1, changed)
  ELSE LET Step(m) ==
             IF IsNone(m) THEN MergeScan(cur, i, merged, used, j + 1, changed)
             ELSE MergeScan(cur, i, _normalize_rect(Val(m)), used \cup {j}, j + 1, TRUE)
       IN  Step(try_merge(merged, cur[j]))

RECURSIVE MergeGreedy(_, _, _, _, _)
\* "while changed": rescan until a scan merges nothing
MergeGreedy(cur, i, merged, used, any) ==
  LET Rescan(s) == IF s.changed THEN MergeGreedy(cur, i, s.merged, s.used, TRUE)
                   ELSE [merged |-> s.merged, used |-> s.used, any |-> any]
  IN  Rescan(MergeScan(cur, i, merged, used, 1, FALSE))

RECURSIVE MergePass(_, _, _, _, _)
\* one iteration of "for _ in range(max_iters)" before the prune
MergePass(cur, i, used, nxt, any) ==
  IF i > Len(cur) THEN [rects |-> nxt, any |-> any]
  ELSE IF i \in used THEN MergePass(cur, i + 1, used, nxt, any)
  ELSE LET Rest(g) == MergePass(cur, i + 1, g.used \cup {i}, Append(nxt, g.merged), g.any)
       IN  Rest(MergeGreedy(cur, i, cur[i], used, any))

MERGE_MAX_ITERS == 50

NormalizeAll(rects) ==
  LET Norm(kept) == [k \in DOMAIN kept |-> _normalize_rect(kept[k])]
  IN  Norm(SelectSeq(rects, LAMBDA r : rect_area(r) > 0))

RECURSIVE MergeLoop(_, _)
MergeLoop(cur, itersLeft) ==
  IF itersLeft = 0 THEN cur
  ELSE LET Again(nxt, merged_any) == IF merged_any THEN MergeLoop(nxt, itersLeft - 1) ELSE nxt
           After(p) == Again(NormalizeAll(prune_contained(p.rects)), p.any)
       IN  After(MergePass(cur, 1, {}, <<>>, FALSE))

\* a merge whose cap ends the loop before its first pass
merge_adjacent_capped(rects) ==
  IF rects = <<>> THEN <<>> ELSE MergeLoop(NormalizeAll(rects), 0)

merge_adjacent(rects) ==
  IF rects = <<>> THEN <<>> ELSE MergeLoop(NormalizeAll(rects), MERGE_MAX_ITERS)

init_for_vehicle(v) ==
  << <<-(v.innerWidth \div 2), v.innerWidth \div 2,
       -(v.innerLength \div 2), v.innerLength \div 2>> >>

\* the "for r in self.rects" loop of FreeRects.reserve
SplitAll(rects, used) ==
  Concat([k \in DOMAIN rects |->
            IF ~rect_intersects(rects[k], used) THEN <<rects[k]>>
            ELSE split_rect(rects[k], used)])

reserve(rects, used) == merge_adjacent(prune_contained(SplitAll(rects, used)))

-----------------------------------------------------------------------------
(* geometry/aabb.py, constraints/bounds.py                                  *)

aabb_from_center(x, y, z, dx, dy, dz) ==
  [minX |-> x - dx \div 2, maxX |-> x + dx \div 2,
   minY |-> y - dy \div 2, maxY |-> y + dy \div 2,
   minZ |-> z - dz \div 2, maxZ |-> z + dz \div 2]

aabb_intersects(a, b) ==
  /\ ~(a.maxX <= b.minX \/ a.minX >= b.maxX)
  /\ ~(a.maxY <= b.minY \/ a.minY >= b.maxY)
  /\ ~(a.maxZ <= b.minZ \/ a.minZ >= b.maxZ)

\* oob_check forgetting the height of the hold
oob_check_no_height(aabb, v) ==
  LET half_w == v.innerWidth \div 2
      half_l == v.innerLength \div 2
  IN  \/ aabb.minX < -half_w \/ aabb.maxX > half_w
      \/ aabb.minZ < -half_l \/ aabb.maxZ > half_l

\* TRUE when the box sticks out of the hold
oob_check(aabb, v) ==
  LET half_w == v.innerWidth \div 2
      half_l == v.innerLength \div 2
      inner_h == v.innerHeight
  IN  \/ aabb.minX < -half_w \/ aabb.maxX > half_w
      \/ aabb.minZ < -half_l \/ aabb.maxZ > half_l
      \/ aabb.minY < 0 \/ aabb.maxY > inner_h

collides_with_any(aabb, placedList) ==
  \E k \in DOMAIN placedList : aabb_intersects(aabb, placedList[k].aabb)

\* the gates return <<ok, reasons>>
check_oob(c, v) == IF oob_check(c.aabb, v) THEN <<FALSE, <<"oob">> >> ELSE <<TRUE, <<>> >>

check_collision(c, placedList) ==
  IF collides_with_any(c.aabb, placedList) THEN <<FALSE, <<"collision">> >> ELSE <<TRUE, <<>> >>

-----------------------------------------------------------------------------
(* catalogs/placed_item.py                                                  *)

\* st is the status of the unit at the moment the entry is built
placed_from_candidate(c, item, st) ==
  [item |-> item, x |-> c.x, y |-> c.y, z |-> c.z, rotationY |-> c.rotationY,
   dims |-> <<c.dx, c.dy, c.dz>>, aabb |-> c.aabb,
   corner |-> [x |-> c.aabb.minX, z |-> c.aabb.minZ], status |-> st]

-----------------------------------------------------------------------------
(* constraints/axles.py -- an axle load is the fraction n/d of kilograms,   *)
(* d being the axle span b_pos - a_pos (1 when there is no axle model)      *)

\* the fraction q exceeds the whole number k
RatGT(q, k) == IF q.d > 0 THEN q.n > k * q.d ELSE q.n < k * q.d

\* loads in which axle A carries every unit's whole weight
compute_loads_whole_on_a(placedList, v) ==
  LET total == SumSeq([k \in DOMAIN placedList |-> placedList[k].item.weight])
      a_pos == v.axleAPosFromHeadM
      b_pos == v.axleBPosFromHeadM
      Two(span) ==
        [payload_kg |-> total, axleA_kg |-> [n |-> total * span, d |-> span],
         axleB_kg |-> [n |-> SumSeq([k \in DOMAIN placedList |->
                                       placedList[k].item.weight
                                         * ((placedList[k].z + v.innerLength \div 2)
                                              - Val(a_pos))]),
                       d |-> span]]
  IN  IF IsNone(a_pos) \/ IsNone(b_pos) \/ Val(b_pos) - Val(a_pos) = 0
      THEN [payload_kg |-> total, axleA_kg |-> [n |-> 0, d |-> 1], axleB_kg |-> [n |-> 0, d |-> 1]]
      ELSE Two(Val(b_pos) - Val(a_pos))

compute_loads(placedList, v) ==
  LET total == SumSeq([k \in DOMAIN placedList |-> placedList[k].item.weight])
      a_pos == v.axleAPosFromHeadM
      b_pos == v.axleBPosFromHeadM
  IN  IF IsNone(a_pos) \/ IsNone(b_pos) \/ Val(b_pos) - Val(a_pos) = 0
      THEN [payload_kg |-> total, axleA_kg |-> [n |-> 0, d |-> 1], axleB_kg |-> [n |-> 0, d |-> 1]]
      ELSE LET L    == v.innerLength
               z0   == -(L \div 2)
               span == Val(b_pos) - Val(a_pos)
               \* rb = w * (x_from_head - a_pos) / span, summed, times span
               axleB == SumSeq([k \in DOMAIN placedList |->
                          placedList[k].item.weight * ((placedList[k].z - z0) - Val(a_pos))])
               \* ra = w - rb, summed, times span
               axleA == total * span - axleB
           IN  [payload_kg |-> total, axleA_kg |-> [n |-> axleA, d |-> span],
                axleB_kg |-> [n |-> axleB, d |-> span]]

\* check_loads forgetting the payload limit
check_loads_no_payload(l, v) ==
  LET r2 == IF ~IsNone(v.axleALimitKg) /\ RatGT(l.axleA_kg, Val(v.axleALimitKg))
            THEN <<"axleA_limit">> ELSE <<>>
      r3 == IF ~IsNone(v.axleBLimitKg) /\ RatGT(l.axleB_kg, Val(v.axleBLimitKg))
            THEN <<"axleB_limit">> ELSE <<>>
      reasons == r2 \o r3
  IN  <<Len(reasons) = 0, reasons>>

check_loads(l, v) ==
  LET r1 == IF ~IsNone(v.payloadMaxKg) /\ l.payload_kg > Val(v.payloadMaxKg)
            THEN <<"payload_limit">> ELSE <<>>
      r2 == IF ~IsNone(v.axleALimitKg) /\ RatGT(l.axleA_kg, Val(v.axleALimitKg))
            THEN <<"axleA_limit">> ELSE <<>>
      r3 == IF ~IsNone(v.axleBLimitKg) /\ RatGT(l.axleB_kg, Val(v.axleBLimitKg))
            THEN <<"axleB_limit">> ELSE <<>>
      reasons == r1 \o r2 \o r3
  IN  <<Len(reasons) = 0, reasons>>

-----------------------------------------------------------------------------
(* catalogs/item.py -- a unit is a record [idx, id, width, length, height,  *)
(* weight, ratio, box]: idx is its position in the input list (the object's *)
(* identity), ratio is a whole number (0 stands for a missing ratio), box   *)
(* says that palletType or palletTypeNorm contains "BOX"                    *)

footprint_m2(it) == it.width * it.length

\* |x - y| <= tol
Close(x, y, tol) == Abs(x - y) <= tol

is_box_like(it) ==
  \/ it.box
  \/ footprint_m2(it) <= 40 * 40
  \/ (it.height >= 160 /\ Min(it.width, it.length) <= 60)

is_standard_80x120(it) ==
  \/ (Close(it.width, 80, 3) /\ Close(it.length, 120, 3))
  \/ (Close(it.width, 120, 3) /\ Close(it.length, 80, 3))

is_fin_100x120(it) ==
  \/ (Close(it.width, 100, 3) /\ Close(it.length, 120, 3))
  \/ (Close(it.width, 120, 3) /\ Close(it.length, 100, 3))

is_square_120(it) == Close(it.width, 120, 3) /\ Close(it.length, 120, 3)

is_oversize(it, vehicle_inner_width) ==
  \/ Max(it.width, it.length) >= 160 + 1
  \/ Max(it.width, it.length) >= 240 + 1
  \/ it.width >= vehicle_inner_width - 2
  \/ it.length >= vehicle_inner_width - 2

item_class(it, vehicle_inner_width) ==
  IF is_oversize(it, vehicle_inner_width) THEN "oversize"
  ELSE IF is_standard_80x120(it) \/ is_fin_100x120(it) \/ is_square_120(it) THEN "standard"
  ELSE IF is_box_like(it) THEN "box"
  ELSE "other"

-----------------------------------------------------------------------------
(* settings.py is not among the sources: the values the placement engine    *)
(* reads from it are fixed here.  Fractions are records [n, d] with d > 0.  *)

TOP_N_WINDOW == 5

MODE_PRESSURE_THRESHOLD == [n |-> 1, d |-> 1]

FILL_FACTOR_FLOOR_DEFAULT == [n |-> 9, d |-> 10]

FILL_FACTOR_VOLUME_DEFAULT == [n |-> 9, d |-> 10]

-----------------------------------------------------------------------------
(* scoring/coeff.py                                                         *)

\* the fraction n/d in lowest terms, d > 0
Frac(n, d) ==
  LET g == GCD(Abs(n), Abs(d))
      sgn == IF d < 0 THEN -1 ELSE 1
  IN  IF n = 0 THEN [n |-> 0, d |-> 1] ELSE [n |-> sgn * (n \div g), d |-> sgn * (d \div g)]

RECURSIVE RatLess(_, _, _, _)
\* a/b < c/d for b > 0 and d > 0, by whole parts and then the remainders, so
\* that no product is formed
RatLess(a, b, c, d) ==
  IF a \div b # c \div d THEN a \div b < c \div d
  ELSE IF c % d = 0 THEN FALSE
  ELSE IF a % b = 0 THEN TRUE
  ELSE RatLess(d, c % d, b, a % b)

FracLT(p, q) == RatLess(p.n, p.d, q.n, q.d)

FracGE(p, q) == ~FracLT(p, q)

\* a floor demand of one place for every unit, whatever its ratio
RatioOfOne(it) == 1

\* "float(i.ratio) if i.ratio and float(i.ratio) > 0 else 1.0"
RatioOf(it) == IF it.ratio > 0 THEN it.ratio ELSE 1

\* width * length * height in units of 0.01 m3
VolumeOf(it) == (Max(0, it.width) * Max(0, it.length) * Max(0, it.height)) \div 10000

\* the product of two fractions
FracMul(p, q) == Frac(p.n * q.n, p.d * q.d)

\* the whole number k divided by the fraction q
FracDiv(k, q) == Frac(k * q.d, q.n)

\* "(weight_pressure - floor_pressure + 1.0) / 2.0"
RawAlpha(wp, fp) == Frac(wp.n * fp.d - fp.n * wp.d + wp.d * fp.d, 2 * wp.d * fp.d)

\* the raw value taken as it is
ClampAlphaNone(raw) == raw

\* "min(0.8, max(0.2, raw))"
ClampAlpha(raw) ==
  IF FracLT(raw, Frac(1, 5)) THEN Frac(1, 5)
  ELSE IF FracLT(Frac(4, 5), raw) THEN Frac(4, 5)
  ELSE raw

\* "total / max(capacity, eps)": a capacity below eps, on this grid one that is
\* not positive, gives total / eps, written [over_eps |-> total]; eps is far
\* below every positive quantity of the grid, so such a pressure of a positive
\* total exceeds every fraction
Pressure(total, capacity) ==
  IF capacity.n > 0 THEN FracDiv(total, capacity)
  ELSE IF total = 0 THEN Frac(0, 1)
  ELSE [over_eps |-> total]

IsOverEps(p) == "over_eps" \in DOMAIN p

\* "pressure < thr"
PressureLT(p, thr) == IF IsOverEps(p) THEN FALSE ELSE FracLT(p, thr)

\* "min(0.8, max(0.2, raw))" of "(weight_pressure - floor_pressure + 1.0) / 2.0"
MixedAlpha(wp, fp) ==
  IF IsOverEps(wp) /\ IsOverEps(fp)
  THEN (IF wp.over_eps = fp.over_eps THEN Frac(1, 2)
        ELSE IF wp.over_eps < fp.over_eps THEN Frac(1, 5) ELSE Frac(4, 5))
  ELSE IF IsOverEps(fp) THEN Frac(1, 5)
  ELSE IF IsOverEps(wp) THEN Frac(4, 5)
  ELSE ClampAlpha(RawAlpha(wp, fp))

\* a decision by strict comparison: a pressure equal to the threshold counts as
\* below it
ModeDecisionStrict(weight_pressure, floor_pressure, volume_pressure, thr) ==
  LET Above(p) == IsOverEps(p) \/ FracLT(thr, p)
      Of(md, alpha) == [mode |-> md, weight_pressure |-> weight_pressure,
                        floor_pressure |-> floor_pressure,
                        volume_pressure |-> volume_pressure, alpha |-> alpha]
  IN  IF Above(weight_pressure) /\ ~Above(floor_pressure) THEN Of("weight", None)
      ELSE IF Above(floor_pressure) /\ ~Above(weight_pressure) THEN Of("volume", None)
      ELSE Of("mixed", Some(MixedAlpha(weight_pressure, floor_pressure)))

\* the decision of detect_mode for the three pressures
ModeDecision(weight_pressure, floor_pressure, volume_pressure, thr) ==
  IF ~PressureLT(weight_pressure, thr) /\ PressureLT(floor_pressure, thr)
  THEN [mode |-> "weight", weight_pressure |-> weight_pressure,
        floor_pressure |-> floor_pressure, volume_pressure |-> volume_pressure,
        alpha |-> None]
  ELSE IF ~PressureLT(floor_pressure, thr) /\ PressureLT(weight_pressure, thr)
  THEN [mode |-> "volume", weight_pressure |-> weight_pressure,
        floor_pressure |-> floor_pressure, volume_pressure |-> volume_pressure,
        alpha |-> None]
  ELSE [mode |-> "mixed", weight_pressure |-> weight_pressure,
        floor_pressure |-> floor_pressure, volume_pressure |-> volume_pressure,
        alpha |-> Some(MixedAlpha(weight_pressure, floor_pressure))]

detect_mode(its, v) ==
  IF its = <<>>
  THEN [mode |-> "mixed", weight_pressure |-> Frac(0, 1), floor_pressure |-> Frac(0, 1),
        volume_pressure |-> Frac(0, 1), alpha |-> Some(Frac(1, 2))]
  ELSE
    LET total_weight == SumSeq([k \in DOMAIN its |-> Max(0, its[k].weight)])
        total_volume == SumSeq([k \in DOMAIN its |-> VolumeOf(its[k])])
        total_floor_demand == SumSeq([k \in DOMAIN its |-> RatioOf(its[k])])
        weight_capacity == IF ~IsNone(v.payloadMaxKg) THEN Val(v.payloadMaxKg)
                           ELSE Max(total_weight, 1)
        fill_floor == IF ~IsNone(v.fillFactorFloor) THEN Val(v.fillFactorFloor)
                      ELSE FILL_FACTOR_FLOOR_DEFAULT
        fill_vol == IF ~IsNone(v.fillFactorVolume) THEN Val(v.fillFactorVolume)
                    ELSE FILL_FACTOR_VOLUME_DEFAULT
        \* floor demand is in m2, the floor in cm2
        floor_area == Frac(v.innerWidth * v.innerLength, 10000)
        floor_capacity == FracMul(floor_area, fill_floor)
        \* volume is in 0.01 m3, the hold in cm3
        vol_capacity == FracMul(floor_area, FracMul(Frac(v.innerHeight, 1), fill_vol))
    IN  ModeDecision(Pressure(total_weight, Frac(weight_capacity, 1)),
                     Pressure(total_floor_demand, floor_capacity),
                     Pressure(total_volume, vol_capacity),
                     MODE_PRESSURE_THRESHOLD)

\* The value K of a unit is kept as the whole number K * KDen(m): within one
\* run every K has the same denominator, so values compare and add as integers.
KDen(m) ==
  IF m.mode = "weight" THEN 1
  ELSE IF m.mode = "volume" THEN 100
  ELSE 100 * (IF ~IsNone(m.alpha) THEN Val(m.alpha).d ELSE 2)

compute_k(it, m) ==
  LET r == RatioOf(it)
      w == Max(0, it.weight)
      vol == VolumeOf(it)
  IN  IF m.mode = "weight" THEN w * r
      ELSE IF m.mode = "volume" THEN vol * r
      ELSE LET alpha == IF ~IsNone(m.alpha) THEN Val(m.alpha) ELSE Frac(1, 2)
           IN  alpha.n * (100 * w * r) + (alpha.d - alpha.n) * (vol * r)

-----------------------------------------------------------------------------
(* constraints/policies.py -- bonuses and penalties are in tenths           *)

\* ZoneConfig defaults, in hundredths of the hold length
DEFAULT_ZONES == [a |-> 25, b |-> 25, c |-> 25, d |-> 25]

x_from_head(z_center, v) == z_center + v.innerLength \div 2

\* A centre exactly on a zone boundary belongs to the zone before it, as "<="
\* says; the source's floating-point sums can put such a centre on either side.
zone_for_z(z_center, v, cfg) ==
  LET L == v.innerLength
      x0 == x_from_head(z_center, v)
      x == IF x0 < 0 THEN 0 ELSE IF x0 > L THEN L ELSE x0
      a_end == L * cfg.a
      b_end == a_end + L * cfg.b
      c_end == b_end + L * cfg.c
  IN  IF 100 * x <= a_end THEN "A"
      ELSE IF 100 * x <= b_end THEN "B"
      ELSE IF 100 * x <= c_end THEN "C"
      ELSE "D"

\* a configuration that sets nothing: _get_setting gives the default
DefaultSettings == [POLICY_HARD_OVERSIZE_IN_D |-> FALSE]

\* the settings read through _get_setting: the hard-rule toggle as the
\* configuration has it, the others at their defaults
PolicySettings ==
  [POLICY_HI_WEIGHT_ABS |-> 700, POLICY_HI_VOL_ABS |-> 100,
   POLICY_W_HI_AB_BONUS |-> 20, POLICY_W_HI_CD_PENALTY |-> 30,
   POLICY_W_LO_CD_BONUS |-> 5, POLICY_W_LO_AB_PENALTY |-> 5,
   POLICY_V_BIG_ABC_BONUS |-> 10, POLICY_V_BIG_D_PENALTY |-> 20,
   POLICY_V_SMALL_CD_BONUS |-> 5, POLICY_BIG_FOOTPRINT_M2 |-> 16000,
   POLICY_M_HI_AB_BONUS |-> 15, POLICY_M_LO_AB_PENALTY |-> 5,
   POLICY_OVERSIZE_BONUS |-> 8, POLICY_BOX_AB_PENALTY |-> 7, POLICY_BOX_CD_BONUS |-> 15,
   POLICY_HARD_OVERSIZE_IN_D |-> SETTINGS.POLICY_HARD_OVERSIZE_IN_D]

_is_high_value(it, m, settings) ==
  LET thr_w == settings.POLICY_HI_WEIGHT_ABS
      thr_vol == settings.POLICY_HI_VOL_ABS
      thr_mixed_w == thr_w
      w == Max(0, it.weight)
      vol == VolumeOf(it)
  IN  IF m.mode = "weight" THEN w >= thr_w
      ELSE IF m.mode = "volume" THEN vol >= thr_vol
      ELSE w >= thr_mixed_w

\* the PolicyDecision of a unit of class cls and value hi placed in zone
PolicyDecision(zone, cls, hi, it, m, settings, allow_hard_rules) ==
  LET AB == zone \in {"A", "B"}
      CD == zone \in {"C", "D"}
      big_footprint == it.width * it.length >= settings.POLICY_BIG_FOOTPRINT_M2
      modeBonus ==
        IF m.mode = "weight"
        THEN (IF hi /\ AB THEN settings.POLICY_W_HI_AB_BONUS
              ELSE IF ~hi /\ CD THEN settings.POLICY_W_LO_CD_BONUS ELSE 0)
        ELSE IF m.mode = "volume"
        THEN (IF big_footprint /\ zone \in {"A", "B", "C"} THEN settings.POLICY_V_BIG_ABC_BONUS
              ELSE IF ~big_footprint /\ CD THEN settings.POLICY_V_SMALL_CD_BONUS ELSE 0)
        ELSE (IF hi /\ AB THEN settings.POLICY_M_HI_AB_BONUS ELSE 0)
      modePenalty ==
        IF m.mode = "weight"
        THEN (IF hi /\ ~AB THEN settings.POLICY_W_HI_CD_PENALTY
              ELSE IF ~hi /\ ~CD THEN settings.POLICY_W_LO_AB_PENALTY ELSE 0)
        ELSE IF m.mode = "volume"
        THEN (IF big_footprint /\ zone \notin {"A", "B", "C"}
              THEN settings.POLICY_V_BIG_D_PENALTY ELSE 0)
        ELSE (IF ~hi /\ AB THEN settings.POLICY_M_LO_AB_PENALTY ELSE 0)
      classBonus ==
        (IF cls = "oversize" THEN settings.POLICY_OVERSIZE_BONUS ELSE 0)
        + (IF cls = "box" /\ ~AB THEN settings.POLICY_BOX_CD_BONUS ELSE 0)
      classPenalty == IF cls = "box" /\ AB THEN settings.POLICY_BOX_AB_PENALTY ELSE 0
      hard == IF allow_hard_rules /\ settings.POLICY_HARD_OVERSIZE_IN_D
                 /\ cls = "oversize" /\ zone = "D"
              THEN <<"oversize_in_D">> ELSE <<>>
  IN  [hard_reject_reasons |-> hard,
       zone_penalty |-> modePenalty + classPenalty,
       zone_bonus |-> modeBonus + classBonus,
       tags |-> [zone |-> zone, class |-> cls, hi |-> IF hi THEN "1" ELSE "0", mode |-> m.mode]]

evaluate_candidate_policy(it, c, v, m, settings, allow_hard_rules) ==
  PolicyDecision(zone_for_z(c.z, v, DEFAULT_ZONES), item_class(it, v.innerWidth),
                 _is_high_value(it, m, settings), it, m, settings, allow_hard_rules)

CLASS_PRIORITY_DEFAULT(cls) ==
  CASE cls = "oversize" -> 0
    [] cls = "standard" -> 1
    [] cls = "other" -> 2
    [] cls = "box" -> 3
    [] OTHER -> 99

\* a key whose K takes the ratio as it is, without the fallback to 1
sort_key_for_queue_raw_ratio(it, v, m) ==
  LET pr == CLASS_PRIORITY_DEFAULT(item_class(it, v.innerWidth))
      w == Max(0, it.weight)
      vol == VolumeOf(it)
      Key(k) == <<pr, -k>>
      Mixed(alpha) == alpha.n * (100 * w * it.ratio) + (alpha.d - alpha.n) * (vol * it.ratio)
  IN  IF m.mode = "weight" THEN Key(w * it.ratio)
      ELSE IF m.mode = "volume" THEN Key(vol * it.ratio)
      ELSE Key(Mixed(IF ~IsNone(m.alpha) THEN Val(m.alpha) ELSE Frac(1, 2)))

\* the key <<class priority, -K>>, K as the whole number K * KDen(m)
sort_key_for_queue(it, v, m) ==
  LET cls == item_class(it, v.innerWidth)
      pr == CLASS_PRIORITY_DEFAULT(cls)
      r == IF it.ratio > 0 THEN it.ratio ELSE 1
      w == Max(0, it.weight)
      vol == VolumeOf(it)
      k == IF m.mode = "weight" THEN w * r
           ELSE IF m.mode = "volume" THEN vol * r
           ELSE LET alpha == IF ~IsNone(m.alpha) THEN Val(m.alpha) ELSE Frac(1, 2)
                IN  alpha.n * (100 * w * r) + (alpha.d - alpha.n) * (vol * r)
  IN  <<pr, -k>>

\* lexicographic order on tuples of whole numbers of equal length
RECURSIVE LexLess(_, _)
LexLess(a, b) ==
  IF a = <<>> THEN FALSE
  ELSE IF Head(a) # Head(b) THEN Head(a) < Head(b)
  ELSE LexLess(Tail(a), Tail(b))

\* a queue left in the order the units were given in
StableSortNone(s, keyOf) == s

\* list.sort / sorted: the stable sort of s by the keys keyOf[k] of its entries
StableSort(s, keyOf) ==
  LET Rank(i) == 1 + Cardinality({j \in DOMAIN s :
                       LexLess(keyOf[j], keyOf[i]) \/ (keyOf[j] = keyOf[i] /\ j < i)})
  IN  [k \in DOMAIN s |-> s[CHOOSE i \in DOMAIN s : Rank(i) = k]]

-----------------------------------------------------------------------------
(* candidates/patterns.py -- a Candidate is a record [itemId, x, y, z,      *)
(* rotationY, dx, dy, dz, aabb, kind, meta]; meta.patternId is None for a   *)
(* single; index tuples are 0-based as in the source                        *)

MAX_PREFIX_STD == 14

MAX_PREFIX_BIG == 10

MAX_VARIANTS_3 == 6

MAX_VARIANTS_5 == 8

MAX_VARIANTS_140P80 == 20

\* the last n entries of the list instead of the first
_top_tail(its, n) == IF n <= 0 THEN <<>> ELSE SubSeq(its, Len(its) - Min(Len(its), n) + 1, Len(its))

_top(its, n) == IF n <= 0 THEN <<>> ELSE SubSeq(its, 1, Min(Len(its), n))

is_std_80x120(it) ==
  \/ (Close(it.width, 80, 3) /\ Close(it.length, 120, 3))
  \/ (Close(it.width, 120, 3) /\ Close(it.length, 80, 3))

is_140x120(it) ==
  \/ (Close(it.width, 140, 3) /\ Close(it.length, 120, 3))
  \/ (Close(it.width, 120, 3) /\ Close(it.length, 140, 3))

_rot_for(it, want_w, want_l) ==
  IF Abs(it.width - want_w) <= 3 /\ Abs(it.length - want_l) <= 3 THEN 0 ELSE 90

\* (dx, dz) of a unit under a rotation
DxOf(it, rot) == IF rot = 0 THEN it.width ELSE it.length

DzOf(it, rot) == IF rot = 0 THEN it.length ELSE it.width

_build_candidate(it, x, y, z, rot, kind, meta) ==
  LET dx == DxOf(it, rot)
      dz == DzOf(it, rot)
      dy == it.height
  IN  [itemId |-> it.id, x |-> x, y |-> y, z |-> z, rotationY |-> rot,
       dx |-> dx, dy |-> dy, dz |-> dz,
       aabb |-> aabb_from_center(x, y + dy \div 2, z, dx, dy, dz),
       kind |-> kind, meta |-> meta]

RECURSIVE PickVariants(_, _, _, _, _)
\* the loop "for idxs in idx_sets" of _variants_take3 / _variants_take5: keeps the
\* tuples whose indices are all below n, drops repeats, stops at cap tuples
PickVariants(idx_sets, n, cap, out, seen) ==
  IF idx_sets = <<>> THEN out
  ELSE LET idxs == Head(idx_sets)
           inRange == \A k \in DOMAIN idxs : idxs[k] < n
       IN  IF inRange /\ idxs \in seen THEN PickVariants(Tail(idx_sets), n, cap, out, seen)
           ELSE LET out2 == IF inRange THEN Append(out, idxs) ELSE out
                    seen2 == IF inRange THEN seen \cup {idxs} ELSE seen
                IN  IF Len(out2) >= cap THEN out2
                    ELSE PickVariants(Tail(idx_sets), n, cap, out2, seen2)

\* the items of a pool at the positions of an index tuple
AtIdx(its, idxs) == [k \in DOMAIN idxs |-> its[idxs[k] + 1]]

_variants_take3(its) ==
  LET n == Len(its)
      idx_sets == << <<0, 1, 2>> >>
                  \o (IF n >= 4 THEN << <<0, 1, 3>>, <<0, 2, 3>>, <<1, 2, 3>> >> ELSE <<>>)
                  \o (IF n >= 5 THEN << <<0, 1, 4>>, <<0, 2, 4>> >> ELSE <<>>)
      Taken(picked) == [k \in DOMAIN picked |-> AtIdx(its, picked[k])]
  IN  IF n < 3 THEN <<>> ELSE Taken(PickVariants(idx_sets, n, MAX_VARIANTS_3, <<>>, {}))

_variants_take5(its) ==
  LET n == Len(its)
      idx_sets == << <<0, 1, 2, 3, 4>> >>
                  \o (IF n >= 6 THEN << <<0, 1, 2, 3, 5>>, <<0, 1, 2, 4, 5>>, <<0, 1, 3, 4, 5>> >>
                      ELSE <<>>)
                  \o (IF n >= 7 THEN << <<0, 2, 3, 4, 5>>, <<1, 2, 3, 4, 5>>,
                                        <<0, 1, 2, 3, 6>>, <<0, 1, 2, 4, 6>> >>
                      ELSE <<>>)
      Taken(picked) == [k \in DOMAIN picked |-> AtIdx(its, picked[k])]
  IN  IF n < 5 THEN <<>> ELSE Taken(PickVariants(idx_sets, n, MAX_VARIANTS_5, <<>>, {}))

PATTERN_3ACROSS_W == 240

PATTERN_3ACROSS_Z == 120

PATTERN_140P80_W == 220

PATTERN_140P80_Z == 120

PATTERN_3P2_W == 240

PATTERN_3P2_Z == 200

PATTERN_ZIGZAG_W == 240

PATTERN_ZIGZAG_Z == 200

\* the first n entries of a list
FirstN(s, n) == SubSeq(s, 1, Min(Len(s), n))

\* the values of a list of present options
ValsOf(oks) == [k \in DOMAIN oks |-> Val(oks[k])]

\* the packs a generator yields: the attempts that were not skipped, in order
Produced(attempts) == ValsOf(SelectSeq(attempts, LAMBDA p : ~IsNone(p)))

\* One row of a pattern: the units of row side by side from minX at the given
\* pitch, rotated to want_w x want_l, centred at zc.  None when a unit exceeds the
\* slot (the "ok = False; break" of the generators).
PatternRow(row, minX, pitch, want_w, want_l, zc, kind, pattern, rect, z0, rank0) ==
  LET Fits(it) == LET rot == _rot_for(it, want_w, want_l)
                  IN  ~(DxOf(it, rot) > want_w + 6 \/ DzOf(it, rot) > want_l + 6)
  IN  IF \E j \in DOMAIN row : ~Fits(row[j]) THEN None
      ELSE Some([j \in DOMAIN row |->
             LET it == row[j]
                 rot == _rot_for(it, want_w, want_l)
                 x == minX + ((j - 1) * pitch) + DxOf(it, rot) \div 2
             IN  _build_candidate(it, x, 0, zc, rot, kind,
                   [pattern |-> pattern, patternId |-> <<"scan">>, rect |-> rect,
                    slotZ0 |-> z0, kRank |-> rank0 + (j - 1)])])

gen_3across(rect, std_items, z_anchor) ==
  LET minX == rect[1]
      rect_w == rect[2] - rect[1]
      rect_l == rect[4] - rect[3]
      pool == _top(std_items, MAX_PREFIX_STD)
      zc == z_anchor + PATTERN_3ACROSS_Z \div 2
      Rows(trios) == [k \in DOMAIN trios |->
                        PatternRow(trios[k], minX, 80, 80, 120, zc, "pattern_3across",
                                   "3across", rect, z_anchor, 0)]
  IN  IF rect_w < PATTERN_3ACROSS_W \/ rect_l < PATTERN_3ACROSS_Z THEN <<>>
      ELSE IF Len(pool) < 3 THEN <<>>
      ELSE Produced(Rows(_variants_take3(pool)))

gen_140plus80(rect, big_items, std_items, z_anchor) ==
  LET minX == rect[1]
      rect_w == rect[2] - rect[1]
      rect_l == rect[4] - rect[3]
      big_pool == _top(big_items, MAX_PREFIX_BIG)
      std_pool == _top(std_items, MAX_PREFIX_STD)
      zc == z_anchor + PATTERN_140P80_Z \div 2
      \* the pack of big unit bi_idx and standard unit si_idx, or None when skipped
      PairOf(bi_idx, si_idx) ==
        LET bi == big_pool[bi_idx]
            si == std_pool[si_idx]
            rot_b == _rot_for(bi, 140, 120)
            rot_s == _rot_for(si, 80, 120)
            dx_b == DxOf(bi, rot_b)
            dx_s == DxOf(si, rot_s)
        IN  IF dx_b > 146 \/ DzOf(bi, rot_b) > 126 THEN None
            ELSE IF dx_s > 86 \/ DzOf(si, rot_s) > 126 THEN None
            ELSE IF dx_b + dx_s > rect_w THEN None
            ELSE Some(<<
              _build_candidate(bi, minX + dx_b \div 2, 0, zc, rot_b, "pattern_140plus80",
                [pattern |-> "140plus80", patternId |-> <<"scan">>, rect |-> rect,
                 slotZ0 |-> z_anchor, kRank |-> bi_idx - 1]),
              _build_candidate(si, minX + dx_b + dx_s \div 2, 0, zc, rot_s, "pattern_140plus80",
                [pattern |-> "140plus80", patternId |-> <<"scan">>, rect |-> rect,
                 slotZ0 |-> z_anchor, kRank |-> si_idx - 1]) >>)
      \* the two nested loops, big outermost
      pairs == Concat([b \in DOMAIN big_pool |-> [t \in DOMAIN std_pool |-> PairOf(b, t)]])
  IN  IF rect_w < PATTERN_140P80_W \/ rect_l < PATTERN_140P80_Z THEN <<>>
      ELSE IF big_pool = <<>> \/ std_pool = <<>> THEN <<>>
      ELSE FirstN(Produced(pairs), MAX_VARIANTS_140P80)

\* a pack of two rows, or None when either row has a unit exceeding its slot
TwoRows(r1, r2) == IF IsNone(r1) \/ IsNone(r2) THEN None ELSE Some(Val(r1) \o Val(r2))

gen_3plus2(rect, std_items, z_anchor) ==
  LET minX == rect[1]
      rect_w == rect[2] - rect[1]
      rect_l == rect[4] - rect[3]
      pool == _top(std_items, MAX_PREFIX_STD)
      zc1 == z_anchor + 120 \div 2
      zc2 == (z_anchor + 120) + 80 \div 2
      Packs(fives) ==
        [k \in DOMAIN fives |->
           TwoRows(PatternRow(SubSeq(fives[k], 1, 3), minX, 80, 80, 120, zc1,
                              "pattern_3plus2", "3plus2", rect, z_anchor, 0),
                   PatternRow(SubSeq(fives[k], 4, 5), minX, 120, 120, 80, zc2,
                              "pattern_3plus2", "3plus2", rect, z_anchor, 3))]
  IN  IF rect_w < PATTERN_3P2_W \/ rect_l < PATTERN_3P2_Z THEN <<>>
      ELSE IF Len(pool) < 5 THEN <<>>
      ELSE Produced(Packs(_variants_take5(pool)))

gen_zigzag(rect, std_items, z_anchor) ==
  LET minX == rect[1]
      rect_w == rect[2] - rect[1]
      rect_l == rect[4] - rect[3]
      pool == _top(std_items, MAX_PREFIX_STD)
      zc1 == z_anchor + 80 \div 2
      zc2 == (z_anchor + 80) + 120 \div 2
      Packs(fives) ==
        [k \in DOMAIN fives |->
           TwoRows(PatternRow(SubSeq(fives[k], 1, 2), minX, 120, 120, 80, zc1,
                              "pattern_zigzag", "zigzag", rect, z_anchor, 0),
                   PatternRow(SubSeq(fives[k], 3, 5), minX, 80, 80, 120, zc2,
                              "pattern_zigzag", "zigzag", rect, z_anchor, 2))]
  IN  IF rect_w < PATTERN_ZIGZAG_W \/ rect_l < PATTERN_ZIGZAG_Z THEN <<>>
      ELSE IF Len(pool) < 5 THEN <<>>
      ELSE Produced(Packs(_variants_take5(pool)))

-----------------------------------------------------------------------------
(* candidates/generators.py                                                 *)

RECURSIVE Dedup(_, _)
\* the entries of s in order, without those already met (seen); a sequence of
\* two or more entries is taken as its first half and then its second half
Dedup(s, seen) ==
  IF s = <<>> THEN <<>>
  ELSE IF Len(s) = 1 THEN (IF s[1] \in seen THEN <<>> ELSE s)
  ELSE LET h == Len(s) \div 2
       IN  Dedup(SubSeq(s, 1, h), seen)
             \o Dedup(SubSeq(s, h + 1, Len(s)), seen \cup {s[k] : k \in 1..h})

\* anchors at the four corners of the rectangle itself
_anchors_for_rect_corners(r, dx, dz) ==
  IF r[2] - dx < r[1] \/ r[4] - dz < r[3] THEN <<>>
  ELSE Dedup(<< <<r[1], r[3]>>, <<r[2], r[3]>>, <<r[1], r[4]>>, <<r[2], r[4]>> >>, {})

_anchors_for_rect(r, dx, dz) ==
  LET x0 == r[1]
      x1 == r[2] - dx
      z0 == r[3]
      z1 == r[4] - dz
  IN  IF x1 < x0 \/ z1 < z0 THEN <<>>
      ELSE Dedup(<< <<x0, z0>>, <<x1, z0>>, <<x0, z1>>, <<x1, z1>> >>, {})

_z_anchors_for_len(rect, slot_len) ==
  IF rect[4] - rect[3] < slot_len THEN <<>> ELSE <<rect[3], rect[4] - slot_len>>

\* an assignment that leaves the generator's identifier on the pack
_assign_pattern_id_keep(pack, pid) == pack

_assign_pattern_id(pack, pid) ==
  [k \in DOMAIN pack |-> [pack[k] EXCEPT !.meta.patternId = pid]]

\* how many free rectangles, largest first, the generator looks at
RECT_LIMIT == 250

\* the packs of one free rectangle, in the order the generator enumerates them
PacksOfRect(r, std_items, big_140) ==
  LET a3 == _z_anchors_for_len(r, PATTERN_3ACROSS_Z)
      a140 == _z_anchors_for_len(r, PATTERN_140P80_Z)
      a32 == _z_anchors_for_len(r, PATTERN_3P2_Z)
      azz == _z_anchors_for_len(r, PATTERN_ZIGZAG_Z)
  IN  Concat([k \in DOMAIN a3 |-> gen_3across(r, std_items, a3[k])])
      \o Concat([k \in DOMAIN a140 |-> gen_140plus80(r, big_140, std_items, a140[k])])
      \o Concat([k \in DOMAIN a32 |-> gen_3plus2(r, std_items, a32[k])])
      \o Concat([k \in DOMAIN azz |-> gen_zigzag(r, std_items, azz[k])])

\* the single candidates of one unit under one rotation
SinglesOf(it, rot, rects) ==
  LET dx == DxOf(it, rot)
      dz == DzOf(it, rot)
      dy == it.height
      OfRect(r) ==
        IF r[2] - r[1] < dx \/ r[4] - r[3] < dz THEN <<>>
        ELSE LET At(anchors) ==
                   [k \in DOMAIN anchors |->
                      LET ax == anchors[k][1]
                          az == anchors[k][2]
                          x == ax + dx \div 2
                          z == az + dz \div 2
                      IN  [itemId |-> it.id, x |-> x, y |-> 0, z |-> z, rotationY |-> rot,
                           dx |-> dx, dy |-> dy, dz |-> dz,
                           aabb |-> aabb_from_center(x, 0 + dy \div 2, z, dx, dy, dz),
                           kind |-> "single",
                           meta |-> [rect |-> r, anchor |-> <<ax, az>>, patternId |-> None]]]
             IN  At(_anchors_for_rect(r, dx, dz))
  IN  Concat([k \in DOMAIN rects |-> OfRect(rects[k])])

RECURSIVE AreaSorted(_)
\* sorted(rects, key=rect_area, reverse=True): the orders of the rectangles with
\* the larger area first.  The source compares floating-point areas, whose last
\* bits decide between rectangles of equal area, so these come in any order.
AreaSorted(rects) ==
  IF rects = <<>> THEN {<<>>}
  ELSE LET top == {k \in DOMAIN rects :
                     \A j \in DOMAIN rects : rect_area(rects[j]) <= rect_area(rects[k])}
           Without(k) == SubSeq(rects, 1, k - 1) \o SubSeq(rects, k + 1, Len(rects))
       IN  UNION {{<<rects[k]>> \o t : t \in AreaSorted(Without(k))} : k \in top}

\* the packs, each with its pattern identifier <<"p", pattern_seq>>; sorted is
\* the list of free rectangles by area
PatternPacks(sorted, items_subset) ==
  LET rects == SubSeq(sorted, 1, Min(Len(sorted), RECT_LIMIT))
      std_items == SelectSeq(items_subset, is_std_80x120)
      big_140 == SelectSeq(items_subset, is_140x120)
      Numbered(packs) == [k \in DOMAIN packs |-> _assign_pattern_id(packs[k], <<"p", k - 1>>)]
  IN  Numbered(Concat([k \in DOMAIN rects |-> PacksOfRect(rects[k], std_items, big_140)]))

generate_floor_candidates(sorted, items_subset) ==
  LET rects == SubSeq(sorted, 1, Min(Len(sorted), RECT_LIMIT))
      rots == <<0, 90>>
      singles == Concat([k \in DOMAIN items_subset |->
                   Concat([j \in DOMAIN rots |-> SinglesOf(items_subset[k], rots[j], rects)])])
  IN  Concat(PatternPacks(sorted, items_subset)) \o singles

-----------------------------------------------------------------------------
(* scoring/objective.py and the scoring helpers of solver/packer.py         *)

\* (1, K, used_area, 0.0)
score_candidate(byId, c, m) == <<1, compute_k(byId[c.itemId], m), c.dx * c.dz, 0>>

POLICY_SCORE_WEIGHT == 1

_apply_policy_to_score(sc, pol) ==
  <<sc[1], sc[2], sc[3], sc[4] + POLICY_SCORE_WEIGHT * (pol.zone_bonus - pol.zone_penalty)>>

PACK_DENSITY_W == 10

\* 0.6, in tenths
PACK_TOUCH_W == 6

\* 1.5, in tenths
PACK_SLACK_W == 15

RECURSIVE MinOf(_)
MinOf(s) == IF Len(s) = 1 THEN s[1] ELSE Min(Head(s), MinOf(Tail(s)))

RECURSIVE MaxOf(_)
MaxOf(s) == IF Len(s) = 1 THEN s[1] ELSE Max(Head(s), MaxOf(Tail(s)))

\* The geometric quality of a group as the fraction [n, d]: quality = n / (1000 * d).
\* Density is a ratio of areas, the touch and slack weights are in tenths and
\* slack is in cm, so 1000 * quality =
\*   1000 * PACK_DENSITY_W * density + 100 * PACK_TOUCH_W * touch - PACK_SLACK_W * slack.
_packing_quality(group) ==
  IF group = <<>> THEN [n |-> 0, d |-> 1]
  ELSE
    LET used == SumSeq([k \in DOMAIN group |-> group[k].dx * group[k].dz])
        minX == MinOf([k \in DOMAIN group |-> group[k].aabb.minX])
        maxX == MaxOf([k \in DOMAIN group |-> group[k].aabb.maxX])
        minZ == MinOf([k \in DOMAIN group |-> group[k].aabb.minZ])
        maxZ == MaxOf([k \in DOMAIN group |-> group[k].aabb.maxZ])
        bbox_area == Max(0, maxX - minX) * Max(0, maxZ - minZ)
        density == IF bbox_area > 0 THEN Frac(used, bbox_area) ELSE Frac(0, 1)
        rect == group[1].meta.rect
        left_gap == Max(0, minX - rect[1])
        right_gap == Max(0, rect[2] - maxX)
        front_gap == Max(0, minZ - rect[3])
        back_gap == Max(0, rect[4] - maxZ)
        slack == left_gap + right_gap + front_gap + back_gap
        touch == (IF left_gap <= 0 THEN 1 ELSE 0) + (IF right_gap <= 0 THEN 1 ELSE 0)
                 + (IF front_gap <= 0 THEN 1 ELSE 0) + (IF back_gap <= 0 THEN 1 ELSE 0)
        Quality(dens) ==
          [n |-> 1000 * PACK_DENSITY_W * dens.n + 100 * PACK_TOUCH_W * touch * dens.d
                   - PACK_SLACK_W * slack * dens.d,
           d |-> dens.d]
    IN  Quality(density)

\* a comparison that puts the summed K before the geometric quality
PatScoreGT_KFirst(a, b) ==
  IF a.one # b.one THEN a.one > b.one
  ELSE IF a.k # b.k THEN a.k > b.k
  ELSE IF FracLT(a.quality, b.quality) THEN FALSE
  ELSE IF FracLT(b.quality, a.quality) THEN TRUE
  ELSE LexLess(<<b.used, b.policy>>, <<a.used, a.policy>>)

\* tuple comparison pat_score > best_pat_score; a pattern score is the record
\* [one, quality, used, policy, k] for (1, quality, used_area_sum, policy_sum, k_sum)
PatScoreGT(a, b) ==
  IF a.one # b.one THEN a.one > b.one
  ELSE IF FracLT(a.quality, b.quality) THEN FALSE
  ELSE IF FracLT(b.quality, a.quality) THEN TRUE
  ELSE LexLess(<<b.used, b.policy, b.k>>, <<a.used, a.policy, a.k>>)

-----------------------------------------------------------------------------
(* catalogs/plan_state.py and the gates of solver/packer.py                 *)

\* {it.id: it for it in items}: the last unit of an id wins
ItemsById(its) ==
  [id \in {its[k].id : k \in DOMAIN its} |->
     its[CHOOSE k \in DOMAIN its :
           its[k].id = id /\ \A j \in DOMAIN its : its[j].id = id => j <= k]]

\* a can_place without the load gate
can_place_no_loads(placedList, v, byId, st, cand) ==
  LET Oob(o) == IF ~o[1] THEN <<FALSE, o[2]>>
                ELSE LET c == check_collision(cand, placedList)
                     IN  IF ~c[1] THEN <<FALSE, c[2]>> ELSE <<TRUE, <<>> >>
  IN  Oob(check_oob(cand, v))

\* PlanState.can_place: <<ok, reasons>>
can_place(placedList, v, byId, st, cand) ==
  LET item == byId[cand.itemId]
      tmp_placed == Append(placedList, placed_from_candidate(cand, item, st[item.idx]))
      Loads(l) == IF ~l[1] THEN <<FALSE, l[2]>> ELSE <<TRUE, <<>> >>
      Collision(c) == IF ~c[1] THEN <<FALSE, c[2]>>
                      ELSE Loads(check_loads(compute_loads(tmp_placed, v), v))
      Oob(o) == IF ~o[1] THEN <<FALSE, o[2]>> ELSE Collision(check_collision(cand, placedList))
  IN  Oob(check_oob(cand, v))

\* a commit that puts the new entry in front of the placed list
commit_in_front(S, v, byId, st, cand, tag) ==
  LET item == byId[cand.itemId]
      p == placed_from_candidate(cand, item, st[item.idx])
      newPlaced == <<p>> \o S.placed
      used == <<cand.aabb.minX, cand.aabb.maxX, cand.aabb.minZ, cand.aabb.maxZ>>
  IN  [placed |-> newPlaced,
       free_rects |-> reserve(S.free_rects, used),
       loads |-> Some(compute_loads(newPlaced, v)),
       placedFrom |-> <<[iter |-> tag.iter, pid |-> cand.meta.patternId, of |-> tag.of]>>
                        \o S.placedFrom]

\* PlanState.commit on the part S = [placed, free_rects, loads, placedFrom] of the
\* plan state; placedFrom notes the iteration tag.iter, the group of the candidate
\* and the number tag.of of candidates the iteration set out to commit
commit(S, v, byId, st, cand, tag) ==
  LET item == byId[cand.itemId]
      p == placed_from_candidate(cand, item, st[item.idx])
      newPlaced == Append(S.placed, p)
      used == <<cand.aabb.minX, cand.aabb.maxX, cand.aabb.minZ, cand.aabb.maxZ>>
  IN  [placed |-> newPlaced,
       free_rects |-> reserve(S.free_rects, used),
       loads |-> Some(compute_loads(newPlaced, v)),
       placedFrom |-> Append(S.placedFrom, [iter |-> tag.iter, pid |-> cand.meta.patternId,
                                            of |-> tag.of])]

\* a group commit that stops after the first member
CommitGroupFirstOnly(S, v, byId, st, group, tag) ==
  IF group = <<>> THEN S ELSE commit(S, v, byId, st, Head(group), tag)

RECURSIVE CommitGroup(_, _, _, _, _, _)
\* "for c in best_pat_group: state.commit(c)"
CommitGroup(S, v, byId, st, group, tag) ==
  IF group = <<>> THEN S
  ELSE CommitGroup(commit(S, v, byId, st, Head(group), tag), v, byId, st, Tail(group), tag)

\* the group gate without the check of the members against one another
_can_commit_group_no_internal(placedList, v, byId, st, group) ==
  LET Fails(k) == ~check_oob(group[k], v)[1] \/ ~check_collision(group[k], placedList)[1]
      failing == {k \in DOMAIN group : Fails(k)}
      Member(first) ==
        IF ~check_oob(group[first], v)[1] THEN <<FALSE, check_oob(group[first], v)[2]>>
        ELSE <<FALSE, check_collision(group[first], placedList)[2]>>
      tmp_placed == placedList \o [k \in DOMAIN group |->
                      placed_from_candidate(group[k], byId[group[k].itemId],
                                            st[byId[group[k].itemId].idx])]
      Loads(l) == IF ~l[1] THEN <<FALSE, l[2]>> ELSE <<TRUE, <<>> >>
  IN  IF failing # {}
      THEN Member(CHOOSE k \in failing : \A j \in failing : k <= j)
      ELSE Loads(check_loads(compute_loads(tmp_placed, v), v))

_can_commit_group(placedList, v, byId, st, group) ==
  LET internal == \E i \in DOMAIN group : \E j \in 1..(i - 1) :
                    aabb_intersects(group[i].aabb, group[j].aabb)
      Fails(k) == ~check_oob(group[k], v)[1] \/ ~check_collision(group[k], placedList)[1]
      failing == {k \in DOMAIN group : Fails(k)}
      Member(first) ==
        IF ~check_oob(group[first], v)[1] THEN <<FALSE, check_oob(group[first], v)[2]>>
        ELSE <<FALSE, check_collision(group[first], placedList)[2]>>
      tmp_placed == placedList \o [k \in DOMAIN group |->
                      placed_from_candidate(group[k], byId[group[k].itemId],
                                            st[byId[group[k].itemId].idx])]
      Loads(l) == IF ~l[1] THEN <<FALSE, l[2]>> ELSE <<TRUE, <<>> >>
  IN  IF internal THEN <<FALSE, <<"pattern_internal_collision">> >>
      ELSE IF failing # {}
           THEN Member(CHOOSE k \in failing : \A j \in failing : k <= j)
      ELSE Loads(check_loads(compute_loads(tmp_placed, v), v))

\* the first reason taken as the bucket
_pat_reason_bucket_first(reasons) == IF reasons = <<>> THEN "unknown" ELSE reasons[1]

\* the substring tests of _pat_reason_bucket on the reasons the gates produce
_pat_reason_bucket(reasons) ==
  LET has(S) == \E k \in DOMAIN reasons : reasons[k] \in S
  IN  IF reasons = <<>> THEN "unknown"
      ELSE IF has({"pattern_internal_collision"}) THEN "internal_collision"
      ELSE IF has({"oob"}) THEN "oob"
      ELSE IF has({"collision"}) THEN "collision"
      ELSE IF has({"axleA_limit", "axleB_limit", "payload_limit"}) THEN "axles"
      ELSE "other"

\* pattern candidates grouped by patternId, groups in order of first appearance
_group_pattern_candidates(cands) ==
  LET pids == Dedup([k \in DOMAIN cands |-> cands[k].meta.patternId], {None})
  IN  [g \in DOMAIN pids |->
         [pid |-> pids[g],
          group |-> SelectSeq(cands, LAMBDA c : c.meta.patternId = pids[g])]]

-----------------------------------------------------------------------------
(* solver/packer.py: one iteration of the loop "while remaining"            *)

PATTERN_REJECT_LOG_LIMIT == 25

\* allow_hard_rules as pack passes it to evaluate_candidate_policy
PACK_ALLOW_HARD_RULES == FALSE

\* the policy decisions of the members of a group
GroupPolicies(group, v, byId, m) ==
  [k \in DOMAIN group |->
     evaluate_candidate_policy(byId[group[k].itemId], group[k], v, m, PolicySettings,
                               PACK_ALLOW_HARD_RULES)]

\* (1, quality, used_area_sum, policy_sum, k_sum)
PatternScore(group, pols, byId, m) ==
  LET Sums(sc2) ==
        [one |-> 1, quality |-> _packing_quality(group),
         used |-> SumSeq([k \in DOMAIN group |-> sc2[k][3]]),
         policy |-> SumSeq([k \in DOMAIN group |-> sc2[k][4]]),
         k |-> SumSeq([k \in DOMAIN group |-> sc2[k][2]])]
  IN  Sums([k \in DOMAIN group |->
              _apply_policy_to_score(score_candidate(byId, group[k], m), pols[k])])

\* what the pattern loop does with one group: "not_available", a reject bucket,
\* "policy_hard", or "ok" with its score
JudgeGroup(g, placedList, v, byId, st, m, rem_ids) ==
  LET group == g.group
      missing == SelectSeq([k \in DOMAIN group |-> group[k].itemId], LAMBDA id : id \notin rem_ids)
      Scored(pols) ==
        IF \E k \in DOMAIN pols : pols[k].hard_reject_reasons # <<>>
        THEN [verdict |-> "policy_hard"]
        ELSE [verdict |-> "ok", score |-> PatternScore(group, pols, byId, m)]
      Gated(gate) ==
        IF ~gate[1] THEN [verdict |-> _pat_reason_bucket(gate[2])]
        ELSE Scored(GroupPolicies(group, v, byId, m))
  IN  IF missing # <<>> THEN [verdict |-> "not_available"]
      ELSE Gated(_can_commit_group(placedList, v, byId, st, group))

\* pattern_reject_stats[bucket] = pattern_reject_stats.get(bucket, 0) + 1
CountReject(stats, bucket) ==
  [b \in DOMAIN stats \cup {bucket} |->
     IF b \in DOMAIN stats THEN (IF b = bucket THEN stats[b] + 1 ELSE stats[b]) ELSE 1]

RECURSIVE PatternLoop(_, _, _, _, _, _, _, _, _)
\* "for pid, group in pattern_groups.items()" from group k on; acc is
\* [best, events, logged, stats]: best is None or Some([pid, group, score]),
\* stats the number of rejected groups by reason bucket
PatternLoop(groups, k, acc, placedList, v, byId, st, m, rem_ids) ==
  IF k > Len(groups) THEN acc
  ELSE
    LET g == groups[k]
        j == JudgeGroup(g, placedList, v, byId, st, m, rem_ids)
        rejected == [evt |-> "pattern_rejected", patternId |-> g.pid, reason |-> j.verdict,
                     groupSize |-> Len(g.group)]
        counted == [acc EXCEPT !.stats = CountReject(@, j.verdict)]
        logged == [counted EXCEPT !.events = Append(@, rejected), !.logged = @ + 1]
        better == [acc EXCEPT !.best = Some([pid |-> g.pid, group |-> g.group,
                                             score |-> j.score])]
    IN  IF j.verdict # "ok"
        THEN (IF acc.logged < PATTERN_REJECT_LOG_LIMIT
              THEN PatternLoop(groups, k + 1, logged, placedList, v, byId, st, m, rem_ids)
              ELSE PatternLoop(groups, k + 1, counted, placedList, v, byId, st, m, rem_ids))
        ELSE IF IsNone(acc.best) \/ PatScoreGT(j.score, Val(acc.best).score)
        THEN PatternLoop(groups, k + 1, better, placedList, v, byId, st, m, rem_ids)
        ELSE PatternLoop(groups, k + 1, acc, placedList, v, byId, st, m, rem_ids)

\* a single candidate passes can_place and the policy hard rules
SingleFeasible(c, placedList, v, byId, st, m) ==
  /\ can_place(placedList, v, byId, st, c)[1]
  /\ evaluate_candidate_policy(byId[c.itemId], c, v, m, PolicySettings,
                               PACK_ALLOW_HARD_RULES).hard_reject_reasons = <<>>

SingleScore(c, v, byId, m) ==
  _apply_policy_to_score(score_candidate(byId, c, m),
    evaluate_candidate_policy(byId[c.itemId], c, v, m, PolicySettings, PACK_ALLOW_HARD_RULES))

RECURSIVE SingleLoopLast(_, _, _, _, _, _, _, _, _)
\* a loop that keeps the last of the candidates with the largest score
SingleLoopLast(cands, lo, hi, best, placedList, v, byId, st, m) ==
  IF lo > hi THEN best
  ELSE IF lo = hi
  THEN LET c == cands[lo]
           sc == SingleScore(c, v, byId, m)
           skipped == \/ c.meta.patternId # None
                      \/ ~SingleFeasible(c, placedList, v, byId, st, m)
                      \/ ~(IsNone(best) \/ ~LexLess(sc, Val(best).score))
       IN  IF skipped THEN best ELSE Some([cand |-> c, score |-> sc])
  ELSE LET mid == (lo + hi) \div 2
           first == SingleLoopLast(cands, lo, mid, best, placedList, v, byId, st, m)
       IN  IF IsNone(first) THEN SingleLoopLast(cands, mid + 1, hi, None, placedList, v, byId, st, m)
           ELSE SingleLoopLast(cands, mid + 1, hi, first, placedList, v, byId, st, m)

RECURSIVE SingleLoop(_, _, _, _, _, _, _, _, _)
\* "for cand in candidates" over the candidates lo..hi; best is None or
\* Some([cand, score]), the best single before candidate lo.  A range of two or
\* more candidates is walked as its first half and then its second half, the
\* first half being worked out before the second is entered.
SingleLoop(cands, lo, hi, best, placedList, v, byId, st, m) ==
  IF lo > hi THEN best
  ELSE IF lo = hi
  THEN LET c == cands[lo]
           sc == SingleScore(c, v, byId, m)
           skipped == \/ c.meta.patternId # None
                      \/ ~SingleFeasible(c, placedList, v, byId, st, m)
                      \/ ~(IsNone(best) \/ LexLess(Val(best).score, sc))
       IN  IF skipped THEN best ELSE Some([cand |-> c, score |-> sc])
  ELSE LET mid == (lo + hi) \div 2
           first == SingleLoop(cands, lo, mid, best, placedList, v, byId, st, m)
       IN  IF IsNone(first) THEN SingleLoop(cands, mid + 1, hi, None, placedList, v, byId, st, m)
           ELSE SingleLoop(cands, mid + 1, hi, first, placedList, v, byId, st, m)

\* an iteration that emits candidates_generated after its pattern loop
IterationStatsLast(rem, placedList, sorted, v, byId, st, m) ==
  LET window == SubSeq(rem, 1, Min(Len(rem), TOP_N_WINDOW))
      rem_ids == {rem[k].id : k \in DOMAIN rem}
      Generated(candidates, pattern_groups, pat_count) ==
        [evt |-> "candidates_generated", count |-> Len(candidates),
         window |-> Len(window), singleCount |-> Len(candidates) - pat_count,
         patternCandCount |-> pat_count, patternGroups |-> Len(pattern_groups)]
      Summary(pattern_groups, pat) ==
        IF pattern_groups # <<>>
        THEN << [evt |-> "pattern_reject_summary", groups |-> Len(pattern_groups),
                 logged |-> pat.logged, stats |-> pat.stats,
                 logLimit |-> PATTERN_REJECT_LOG_LIMIT] >>
        ELSE <<>>
      Result(candidates, pattern_groups, pat, best_single) ==
        [candidates |-> candidates, pattern_groups |-> pattern_groups,
         events |-> pat.events \o Summary(pattern_groups, pat)
                    \o <<Generated(candidates, pattern_groups,
                                   Len(SelectSeq(candidates, LAMBDA c : c.meta.patternId # None)))>>,
         best_pat |-> pat.best, best_single |-> best_single]
      Loops(candidates, pattern_groups) ==
        Result(candidates, pattern_groups,
               PatternLoop(pattern_groups, 1, [best |-> None, events |-> <<>>, logged |-> 0,
                            stats |-> [b \in {} |-> 0]],
                           placedList, v, byId, st, m, rem_ids),
               SingleLoop(candidates, 1, Len(candidates), None, placedList, v, byId, st, m))
      Grouped(candidates) == Loops(candidates, _group_pattern_candidates(candidates))
  IN  Grouped(generate_floor_candidates(sorted, window))

\* Everything one iteration computes before it chooses: the candidates, the
\* pattern groups, the events of the pattern loop, the best group and the best
\* single; sorted is the list of free rectangles by area
Iteration(rem, placedList, sorted, v, byId, st, m) ==
  LET window == SubSeq(rem, 1, Min(Len(rem), TOP_N_WINDOW))
      rem_ids == {rem[k].id : k \in DOMAIN rem}
      Generated(candidates, pattern_groups, pat_count) ==
        [evt |-> "candidates_generated", count |-> Len(candidates),
         window |-> Len(window), singleCount |-> Len(candidates) - pat_count,
         patternCandCount |-> pat_count, patternGroups |-> Len(pattern_groups)]
      Summary(pattern_groups, pat) ==
        IF pattern_groups # <<>>
        THEN << [evt |-> "pattern_reject_summary", groups |-> Len(pattern_groups),
                 logged |-> pat.logged, stats |-> pat.stats,
                 logLimit |-> PATTERN_REJECT_LOG_LIMIT] >>
        ELSE <<>>
      Result(candidates, pattern_groups, pat, best_single) ==
        [candidates |-> candidates, pattern_groups |-> pattern_groups,
         events |-> <<Generated(candidates, pattern_groups,
                                Len(SelectSeq(candidates, LAMBDA c : c.meta.patternId # None)))>>
                    \o pat.events \o Summary(pattern_groups, pat),
         best_pat |-> pat.best, best_single |-> best_single]
      Loops(candidates, pattern_groups) ==
        Result(candidates, pattern_groups,
               PatternLoop(pattern_groups, 1, [best |-> None, events |-> <<>>, logged |-> 0,
                            stats |-> [b \in {} |-> 0]],
                           placedList, v, byId, st, m, rem_ids),
               SingleLoop(candidates, 1, Len(candidates), None, placedList, v, byId, st, m))
      Grouped(candidates) == Loops(candidates, _group_pattern_candidates(candidates))
  IN  Grouped(generate_floor_candidates(sorted, window))

-----------------------------------------------------------------------------
(* The inputs of pack: the units and the hold.  Lengths are whole            *)
(* centimetres and every footprint side and height is even, so centres are   *)
(* whole numbers; width * length * height is a multiple of 10000 cm3 and     *)
(* ratios are whole, so the pressures and K are exact.                       *)

\* bound: number of units handed to pack
MaxItems == 6

\* the kinds of unit: a standard pallet, a heavy standard pallet given
\* lengthwise, a standard pallet 2 cm over width, a 140 x 120 pallet, a small
\* box without a ratio, an oversize unit
ItemKinds ==
  << [width |-> 80, length |-> 120, height |-> 100, weight |-> 100, ratio |-> 1, box |-> FALSE],
     [width |-> 120, length |-> 80, height |-> 150, weight |-> 700, ratio |-> 1, box |-> FALSE],
     [width |-> 82, length |-> 120, height |-> 250, weight |-> 200, ratio |-> 1, box |-> FALSE],
     [width |-> 140, length |-> 120, height |-> 100, weight |-> 300, ratio |-> 2, box |-> FALSE],
     [width |-> 40, length |-> 40, height |-> 50, weight |-> 10, ratio |-> 0, box |-> TRUE],
     [width |-> 200, length |-> 100, height |-> 100, weight |-> 500, ratio |-> 2, box |-> FALSE] >>

\* the unit list of a sequence of kinds; a unit's id is its position in the list
MakeItems(ks) ==
  [k \in DOMAIN ks |->
     [idx |-> k, id |-> k, width |-> ItemKinds[ks[k]].width, length |-> ItemKinds[ks[k]].length,
      height |-> ItemKinds[ks[k]].height, weight |-> ItemKinds[ks[k]].weight,
      ratio |-> ItemKinds[ks[k]].ratio, box |-> ItemKinds[ks[k]].box]]

\* bound: number of different kinds of unit in one list
MaxKinds == 2

\* the unit lists: up to MaxItems units of up to MaxKinds kinds, kinds in
\* nondecreasing order
ItemLists ==
  {MakeItems(ks) : ks \in {f \in UNION {[1..n -> DOMAIN ItemKinds] : n \in 0..MaxItems} :
                             /\ \A k \in 1..(Len(f) - 1) : f[k] <= f[k + 1]
                             /\ Cardinality(Range(f)) <= MaxKinds}}

\* the holds: a wide one without limits, a long one with a payload limit and a
\* two-axle model, a short low one, and two that are no holds at all, one of
\* width 0 and one of height 0
Vehicles ==
  { [innerWidth |-> 250, innerLength |-> 240, innerHeight |-> 270,
     payloadMaxKg |-> None, axleAPosFromHeadM |-> None, axleBPosFromHeadM |-> None,
     axleALimitKg |-> None, axleBLimitKg |-> None,
     fillFactorFloor |-> None, fillFactorVolume |-> None],
    [innerWidth |-> 240, innerLength |-> 500, innerHeight |-> 270,
     payloadMaxKg |-> Some(1000), axleAPosFromHeadM |-> Some(100),
     axleBPosFromHeadM |-> Some(400), axleALimitKg |-> Some(600), axleBLimitKg |-> Some(600),
     fillFactorFloor |-> Some([n |-> 1, d |-> 2]), fillFactorVolume |-> Some([n |-> 1, d |-> 2])],
    [innerWidth |-> 160, innerLength |-> 120, innerHeight |-> 120,
     payloadMaxKg |-> None, axleAPosFromHeadM |-> None, axleBPosFromHeadM |-> None,
     axleALimitKg |-> None, axleBLimitKg |-> None,
     fillFactorFloor |-> None, fillFactorVolume |-> None],
    [innerWidth |-> 0, innerLength |-> 240, innerHeight |-> 270,
     payloadMaxKg |-> None, axleAPosFromHeadM |-> None, axleBPosFromHeadM |-> None,
     axleALimitKg |-> None, axleBLimitKg |-> None,
     fillFactorFloor |-> None, fillFactorVolume |-> None],
    [innerWidth |-> 250, innerLength |-> 240, innerHeight |-> 0,
     payloadMaxKg |-> None, axleAPosFromHeadM |-> None, axleBPosFromHeadM |-> None,
     axleALimitKg |-> None, axleBLimitKg |-> None,
     fillFactorFloor |-> None, fillFactorVolume |-> None] }

NoLast == [kind |-> "none"]

-----------------------------------------------------------------------------
(* solver/packer.py: pack as a state machine.  pc is the position in pack:  *)
(* "init" at the call, "loop" at the test of "while remaining", "return"    *)
(* after the loop, "done" once the plan is returned, "raised" when pack     *)
(* ended with an exception instead.  iter counts the                        *)
(* iterations begun, placedFrom notes for each entry of placed the          *)
(* iteration and the group it was committed from, reserved collects the     *)
(* footprints handed to reserve, last describes the latest iteration.       *)

Init ==
  /\ pc = "init"
  /\ items \in ItemLists
  /\ vehicle \in Vehicles
  /\ mode = None
  /\ items_by_id = <<>>
  /\ remaining = <<>>
  /\ placed = <<>>
  /\ unplaced = <<>>
  /\ free_rects = <<>>
  /\ loads = None
  /\ debug = <<>>
  /\ delivered = <<>>
  /\ status = [k \in DOMAIN items |-> "ok"]
  /\ iter = 0
  /\ last = NoLast
  /\ placedFrom = <<>>
  /\ reserved = {}
  /\ runs = <<>>
  /\ heap = <<>>
  /\ SETTINGS = DefaultSettings

\* a loop that runs its body once before it looks at the queue
LoopTestAfterBody(rem) == "loop"

\* line 190: "while remaining", where pack goes with the queue rem
LoopTest(rem) == IF rem = <<>> THEN "return" ELSE "loop"

\* lines 166-190: the mode, the plan state, the sorted queue
PackStart ==
  /\ pc = "init"
  /\ \E m \in {detect_mode(items, vehicle)} :
     \E sorted \in {StableSort(items, [k \in DOMAIN items |->
                                         sort_key_for_queue(items[k], vehicle, m)])} :
         /\ mode' = Some(m)
         /\ free_rects' = init_for_vehicle(vehicle)
         /\ items_by_id' = ItemsById(items)
         /\ debug' = << [evt |-> "mode_detected", mode |-> m.mode,
                         weight_pressure |-> m.weight_pressure,
                         floor_pressure |-> m.floor_pressure,
                         volume_pressure |-> m.volume_pressure, alpha |-> m.alpha] >>
         /\ remaining' = sorted
         /\ pc' = LoopTest(sorted)
  /\ last' = [kind |-> "start"]
  /\ UNCHANGED <<SETTINGS, items, vehicle, placed, unplaced, loads, delivered, status, iter, placedFrom,
                 reserved, runs, heap>>

\* a choice that takes the best single whenever there is one
ChosenSingleFirst(best_pat, best_single) ==
  IF IsNone(best_pat) /\ IsNone(best_single) THEN "exhausted"
  ELSE IF ~IsNone(best_single) THEN "single"
  ELSE "pattern"

\* lines 347-372: what the iteration does with its best group and best single
Chosen(best_pat, best_single) ==
  IF IsNone(best_pat) /\ IsNone(best_single) THEN "exhausted"
  ELSE IF ~IsNone(best_pat) THEN "pattern"
  ELSE "single"

\* an exhaustion that records no unit
ExhaustUnitsForgotten(rem) == <<>>

\* marking only the units of the candidate window
ExhaustUnitsWindowOnly(rem) == SubSeq(rem, 1, Min(Len(rem), TOP_N_WINDOW))

\* lines 348-350: the units marked unplaced when nothing is feasible
ExhaustUnits(rem) == rem

\* a removal that leaves the queue as it is
RemoveIdsKeepsAll(rem, ids) == rem

\* line 369 and line 386: the queue without the committed ids
RemoveIds(rem, ids) == SelectSeq(rem, LAMBDA r : r.id \notin ids)

\* the footprint a commit hands to reserve
UsedOf(c) == <<c.aabb.minX, c.aabb.maxX, c.aabb.minZ, c.aabb.maxZ>>

\* the description of an iteration kept in last
LastOf(kind, it) ==
  [kind |-> kind, iter |-> iter + 1, rem |-> remaining, groups |-> it.pattern_groups,
   singles |-> SelectSeq(it.candidates, LAMBDA c : c.meta.patternId = None),
   best_pat |-> it.best_pat, best_single |-> it.best_single, placedBefore |-> Len(placed)]

\* lines 347-352: the pass judged as it found nothing feasible: every unit of
\* the queue is marked unplaced and the loop is left
IterExhaust(it) ==
  /\ LET gone == ExhaustUnits(remaining)
     IN  /\ Chosen(it.best_pat, it.best_single) = "exhausted"
         /\ status' = [k \in DOMAIN status |->
                         IF \E j \in DOMAIN gone : gone[j].idx = k THEN "unplaced" ELSE status[k]]
         /\ unplaced' = unplaced \o gone
         /\ debug' = debug \o it.events
                       \o << [evt |-> "unplaced_all_remaining", count |-> Len(remaining)] >>
         /\ last' = LastOf("exhaust", it)
  /\ pc' = "return"
  /\ iter' = iter + 1
  /\ UNCHANGED <<SETTINGS, items, vehicle, mode, items_by_id, remaining, placed, free_rects, loads,
                 delivered, placedFrom, reserved, runs, heap>>

\* lines 354-370: the pass judged as it commits its best pattern group
IterCommitPattern(it) ==
  /\ Chosen(it.best_pat, it.best_single) = "pattern"
  /\ \E S \in {CommitGroup([placed |-> placed, free_rects |-> free_rects,
                             loads |-> loads, placedFrom |-> placedFrom],
                            vehicle, items_by_id, status, Val(it.best_pat).group,
                            [iter |-> iter + 1,
                             of |-> Len(Val(it.best_pat).group)])} :
     LET bp == Val(it.best_pat)
         committed_ids == [k \in DOMAIN bp.group |-> bp.group[k].itemId]
         rem2 == RemoveIds(remaining, Range(committed_ids))
     IN  /\ placed' = S.placed
         /\ free_rects' = S.free_rects
         /\ loads' = S.loads
         /\ placedFrom' = S.placedFrom
         /\ reserved' = reserved \cup {UsedOf(bp.group[k]) : k \in DOMAIN bp.group}
         /\ debug' = debug \o it.events
                       \o << [evt |-> "pattern_committed", patternId |-> bp.pid,
                              count |-> Len(bp.group), itemIds |-> committed_ids,
                              score |-> bp.score] >>
         /\ remaining' = rem2
         /\ pc' = LoopTest(rem2)
  /\ last' = LastOf("pattern", it)
  /\ iter' = iter + 1
  /\ UNCHANGED <<SETTINGS, items, vehicle, mode, items_by_id, unplaced, delivered, status, runs, heap>>

\* lines 372-386: the pass judged as it commits its best single
IterCommitSingle(it) ==
  /\ Chosen(it.best_pat, it.best_single) = "single"
  /\ \E S \in {commit([placed |-> placed, free_rects |-> free_rects, loads |-> loads,
                        placedFrom |-> placedFrom],
                       vehicle, items_by_id, status, Val(it.best_single).cand,
                       [iter |-> iter + 1, of |-> 1])} :
     LET bs == Val(it.best_single)
         pol == evaluate_candidate_policy(items_by_id[bs.cand.itemId], bs.cand, vehicle,
                                          Val(mode), PolicySettings, PACK_ALLOW_HARD_RULES)
         rem2 == RemoveIds(remaining, {bs.cand.itemId})
     IN  /\ placed' = S.placed
         /\ free_rects' = S.free_rects
         /\ loads' = S.loads
         /\ placedFrom' = S.placedFrom
         /\ reserved' = reserved \cup {UsedOf(bs.cand)}
         /\ debug' = debug \o it.events
                       \o << [evt |-> "candidate_chosen", itemId |-> bs.cand.itemId,
                              kind |-> bs.cand.kind, score |-> bs.score,
                              policy |-> [zone |-> pol.tags.zone, class |-> pol.tags.class,
                                          hi |-> pol.tags.hi, bonus |-> pol.zone_bonus,
                                          penalty |-> pol.zone_penalty]] >>
         /\ remaining' = rem2
         /\ pc' = LoopTest(rem2)
  /\ last' = LastOf("single", it)
  /\ iter' = iter + 1
  /\ UNCHANGED <<SETTINGS, items, vehicle, mode, items_by_id, unplaced, delivered, status, runs, heap>>

\* the debug_log arguments of pack: no callback, a callback that returns, a
\* callback that raises on every event
DebugLogs == {None, Some([raises |-> FALSE]), Some([raises |-> TRUE])}

\* lines 390-392: "if debug_log: for e in res.debug: debug_log(e.evt, e.payload)";
\* the events the callback is called with and whether a call raised
Replay(debug_log, events) ==
  IF IsNone(debug_log) \/ events = <<>> THEN [delivered |-> <<>>, raised |-> FALSE]
  ELSE IF Val(debug_log).raises THEN [delivered |-> <<events[1]>>, raised |-> TRUE]
  ELSE [delivered |-> events, raised |-> FALSE]

\* lines 388-394: the snapshot is taken, the event trail is replayed to the
\* debug_log callback and the snapshot is returned; the plan is placed, unplaced,
\* loads, mode and debug as they stand.  debug_log is an argument of pack that
\* nothing reads before line 390, so it is drawn here.
PackReturn ==
  /\ pc = "return"
  /\ \E debug_log \in DebugLogs :
       \E rp \in {Replay(debug_log, debug)} :
         /\ delivered' = rp.delivered
         /\ pc' = IF rp.raised THEN "raised" ELSE "done"
  /\ UNCHANGED <<SETTINGS, items, vehicle, mode, items_by_id, remaining, placed, unplaced, free_rects,
                 loads, debug, status, iter, last, placedFrom, reserved, runs, heap>>

\* lines 190-386: one pass of "while remaining:"; the candidates are generated
\* and judged once (lines 190-346), and the pass ends in one of its three ways
LoopPass ==
  /\ pc = "loop"
  /\ \E sorted \in AreaSorted(free_rects) :
     \E it \in {Iteration(remaining, placed, sorted, vehicle, items_by_id, status, Val(mode))} :
       \/ IterExhaust(it)
       \/ IterCommitPattern(it)
       \/ IterCommitSingle(it)

Next ==
  \/ PackStart
  \/ LoopPass
  \/ PackReturn

Spec == Init /\ [][Next]_vars

-----------------------------------------------------------------------------
(* Properties of the plan                                                    *)

\* two boxes share a volume of positive measure
BoxesOverlap(a, b) ==
  /\ Max(a.minX, b.minX) < Min(a.maxX, b.maxX)
  /\ Max(a.minY, b.minY) < Min(a.maxY, b.maxY)
  /\ Max(a.minZ, b.minZ) < Min(a.maxZ, b.maxZ)

\* C1: after every iteration and in the returned plan, no two distinct placed
\* units have intersecting bounding boxes, singles and pattern members alike
C1_NoOverlap ==
  \A i, j \in DOMAIN placed :
    i # j => /\ ~BoxesOverlap(placed[i].aabb, placed[j].aabb)
             /\ ~aabb_intersects(placed[i].aabb, placed[j].aabb)

\* a finished plan in which a single stands wall to wall against a pattern member
C1_Witness ==
  /\ pc = "done"
  /\ \E i, j \in DOMAIN placed :
       /\ placedFrom[i].pid # None
       /\ placedFrom[j].pid = None
       /\ \/ placed[i].aabb.maxZ = placed[j].aabb.minZ
          \/ placed[j].aabb.maxZ = placed[i].aabb.minZ
       /\ Max(placed[i].aabb.minX, placed[j].aabb.minX)
            < Min(placed[i].aabb.maxX, placed[j].aabb.maxX)

\* C2: every placed unit's bounding box lies inside the hold's envelope
\* [-W/2, W/2] x [0, H] x [-L/2, L/2]
C2_InsideHold ==
  \A k \in DOMAIN placed :
    /\ -(vehicle.innerWidth \div 2) <= placed[k].aabb.minX
    /\ placed[k].aabb.maxX <= vehicle.innerWidth \div 2
    /\ 0 <= placed[k].aabb.minY
    /\ placed[k].aabb.maxY <= vehicle.innerHeight
    /\ -(vehicle.innerLength \div 2) <= placed[k].aabb.minZ
    /\ placed[k].aabb.maxZ <= vehicle.innerLength \div 2

\* a returned plan with units placed and a unit left out that is taller than the
\* hold although its footprint fits the floor
C2_Witness ==
  /\ pc = "done"
  /\ placed # <<>>
  /\ \E k \in DOMAIN unplaced :
       /\ unplaced[k].height > vehicle.innerHeight
       /\ unplaced[k].width <= vehicle.innerWidth
       /\ unplaced[k].length <= vehicle.innerLength

\* the weight of the placed units
PlacedWeight == SumSeq([k \in DOMAIN placed |-> placed[k].item.weight])

\* the load of axle B times the axle span: each unit's weight times its lever
\* arm from axle A
AxleBMoment ==
  SumSeq([k \in DOMAIN placed |->
            placed[k].item.weight
              * ((placed[k].z + vehicle.innerLength \div 2) - Val(vehicle.axleAPosFromHeadM))])

AxleSpan == Val(vehicle.axleBPosFromHeadM) - Val(vehicle.axleAPosFromHeadM)

\* C3: with a payload limit and/or axle limits configured, the payload and each
\* axle's load over the whole placed set stay within the limit after every
\* iteration and in the returned plan
C3_LoadLimits ==
  /\ ~IsNone(vehicle.payloadMaxKg) => PlacedWeight <= Val(vehicle.payloadMaxKg)
  /\ (~IsNone(vehicle.axleAPosFromHeadM) /\ ~IsNone(vehicle.axleBPosFromHeadM))
       => /\ ~IsNone(vehicle.axleBLimitKg)
               => AxleBMoment <= Val(vehicle.axleBLimitKg) * AxleSpan
          /\ ~IsNone(vehicle.axleALimitKg)
               => PlacedWeight * AxleSpan - AxleBMoment <= Val(vehicle.axleALimitKg) * AxleSpan

\* a returned plan on a limited vehicle where one more unit would have broken
\* the payload limit and was left out
C3_Witness ==
  /\ pc = "done"
  /\ ~IsNone(vehicle.payloadMaxKg)
  /\ placed # <<>>
  /\ \E k \in DOMAIN unplaced : PlacedWeight + unplaced[k].weight > Val(vehicle.payloadMaxKg)

\* the entries of placed committed in iteration n from group pid
CommittedFrom(n, pid) ==
  {k \in DOMAIN placedFrom : placedFrom[k].iter = n /\ placedFrom[k].pid = pid}

\* C4: every pattern group generated in an iteration is, at the end of the
\* iteration and in the returned plan, committed in full or not at all
C4_PatternAtomicity ==
  /\ \A k \in DOMAIN placedFrom :
       placedFrom[k].pid # None
         => Cardinality(CommittedFrom(placedFrom[k].iter, placedFrom[k].pid)) = placedFrom[k].of
  /\ last.kind \in {"pattern", "single", "exhaust"}
       => \A g \in DOMAIN last.groups :
            LET grp == last.groups[g]
                from == CommittedFrom(last.iter, grp.pid)
            IN  \/ from = {}
                \/ /\ from = (last.placedBefore + 1)..(last.placedBefore + Len(grp.group))
                   /\ \A m \in DOMAIN grp.group :
                        /\ placed[last.placedBefore + m].aabb = grp.group[m].aabb
                        /\ placed[last.placedBefore + m].item.id = grp.group[m].itemId

\* an iteration committed one group in full while another group of the same
\* iteration, sharing a unit with it, stayed uncommitted
C4_Witness ==
  /\ last.kind = "pattern"
  /\ \E g, h \in DOMAIN last.groups :
       /\ CommittedFrom(last.iter, last.groups[g].pid) # {}
       /\ CommittedFrom(last.iter, last.groups[h].pid) = {}
       /\ \E m \in DOMAIN last.groups[g].group : \E n \in DOMAIN last.groups[h].group :
            last.groups[g].group[m].itemId = last.groups[h].group[n].itemId

\* C8: every iteration strictly shortens the remaining queue or ends the loop
\* as exhausted; the loop is left as soon as the queue is empty, so a run on n
\* units takes at most n iterations
C8_MonotonicShrink ==
  /\ [][pc = "loop" => /\ iter' = iter + 1
                       /\ \/ (Len(remaining') < Len(remaining)
                              /\ pc' = IF remaining' = <<>> THEN "return" ELSE "loop")
                          \/ (pc' = "return" /\ last'.kind = "exhaust")]_vars
  /\ [][pc # "loop" => iter' = iter]_vars
  /\ [](iter <= Len(items))

\* a finished run on at least three units that took as many iterations as there
\* are units, the last of them the exhausted one
C8_Witness ==
  /\ pc = "done"
  /\ Len(items) >= 3
  /\ iter = Len(items)
  /\ last.kind = "exhaust"

\* the entries an iteration appended to placed, as noted in placedFrom
NewlyCommitted == SubSeq(placedFrom', Len(placedFrom) + 1, Len(placedFrom'))

\* the groups among gs that pass every gate of the pattern loop in the current state
FeasibleGroups(gs) ==
  {g \in DOMAIN gs :
     JudgeGroup(gs[g], placed, vehicle, items_by_id, status, Val(mode),
                {remaining[k].id : k \in DOMAIN remaining}).verdict = "ok"}

\* C9: an iteration with a pattern group that passes all gates commits one such
\* group in full and no single; a single is committed only when no group is feasible
C9_PatternPrecedence ==
  [][pc = "loop" =>
       LET groups == last'.groups
           feasible == FeasibleGroups(groups)
           new == NewlyCommitted
       IN  /\ feasible # {}
                => \E g \in feasible :
                     /\ Len(new) = Len(groups[g].group)
                     /\ \A k \in DOMAIN new : new[k].pid = groups[g].pid
           /\ (\E k \in DOMAIN new : new[k].pid = None) => feasible = {}]_vars

\* an iteration committed a pattern group although a feasible single had a
\* larger K than every member of the group
C9_Witness ==
  /\ last.kind = "pattern"
  /\ ~IsNone(last.best_single)
  /\ \A k \in DOMAIN Val(last.best_pat).group :
       compute_k(items_by_id[Val(last.best_pat).group[k].itemId], Val(mode))
         < Val(last.best_single).score[2]

\* no pattern group and no single generated from the current state passes the gates
NothingFeasible ==
  \A sorted \in AreaSorted(free_rects) :
    LET window == SubSeq(remaining, 1, Min(Len(remaining), TOP_N_WINDOW))
        cands == generate_floor_candidates(sorted, window)
    IN  /\ FeasibleGroups(_group_pattern_candidates(cands)) = {}
        /\ \A k \in DOMAIN cands :
             cands[k].meta.patternId = None
               => ~SingleFeasible(cands[k], placed, vehicle, items_by_id, status, Val(mode))

\* C10: an iteration with nothing feasible marks every unit of the remaining
\* queue unplaced, appends them all to the unplaced list, commits nothing and
\* leaves the loop; nothing is committed after the loop
C10_ExhaustionStep ==
  [][/\ (pc = "loop" /\ NothingFeasible)
          => /\ \A k \in DOMAIN remaining : status'[remaining[k].idx] = "unplaced"
             /\ unplaced' = unplaced \o remaining
             /\ placed' = placed
             /\ pc' = "return"
     /\ pc \in {"return", "done", "raised"}
          => (placed' = placed /\ pc' \in {"done", "raised"})]_vars

\* a returned plan whose run was exhausted with more units in the queue than
\* the candidate window holds
C10_Witness ==
  /\ pc = "done"
  /\ last.kind = "exhaust"
  /\ Len(last.rem) > TOP_N_WINDOW
  /\ Len(unplaced) = Len(last.rem)

\* the unit u has a single candidate in the current free space that passes the
\* bounds, collision and load gates
AdmitsCandidate(u) ==
  \E sorted \in AreaSorted(free_rects) :
    LET cands == generate_floor_candidates(sorted, <<u>>)
    IN  \E k \in DOMAIN cands :
          can_place(placed, vehicle, items_by_id, status, cands[k])[1]

\* C11: when the loop stops as exhausted, no unit of the remaining queue, now
\* unplaced, has a candidate in the current free space that passes the bounds,
\* collision and load gates
C11_ExhaustionJustified ==
  last.kind = "exhaust" => \A k \in DOMAIN last.rem : ~AdmitsCandidate(last.rem[k])

\* C12: every returned plan, a plan with nothing placed included, carries a load
\* aggregate whose payload is the sum of the weights of the placed units, and
\* after every commit loads is compute_loads of the whole placed list
C12_PayloadIsWeightSum ==
  /\ pc = "done" => (~IsNone(loads) /\ Val(loads).payload_kg = PlacedWeight)
  /\ placed # <<>> => loads = Some(compute_loads(placed, vehicle))

\* the packs the templates enumerate for the window of the queue, before any
\* identifier is assigned, in the order of generation
RawPacks(sorted) ==
  LET window == SubSeq(remaining, 1, Min(Len(remaining), TOP_N_WINDOW))
      rects == SubSeq(sorted, 1, Min(Len(sorted), RECT_LIMIT))
  IN  Concat([k \in DOMAIN rects |->
                PacksOfRect(rects[k], SelectSeq(window, is_std_80x120),
                            SelectSeq(window, is_140x120))])

\* C13: within one call of generate_floor_candidates every enumerated pack has a
\* patternId of its own, so the groups by patternId are exactly the generated
\* packs, in number and member by member
C13_PatternIdUnique ==
  [][pc = "loop" =>
       \E sorted \in AreaSorted(free_rects) :
         LET packs == RawPacks(sorted)
             groups == last'.groups
         IN  /\ Len(groups) = Len(packs)
             /\ \A g, h \in DOMAIN groups : g # h => groups[g].pid # groups[h].pid
             /\ \A g \in DOMAIN groups :
                  /\ Len(groups[g].group) = Len(packs[g])
                  /\ \A k \in DOMAIN groups[g].group :
                       /\ groups[g].group[k].meta.patternId = groups[g].pid
                       /\ [groups[g].group[k] EXCEPT !.meta.patternId = <<"scan">>]
                            = packs[g][k]]_vars

\* an iteration generated at least three packs, two of them alternatives that
\* lay the same unit on intersecting places
C13_Witness ==
  /\ last.kind \in {"pattern", "single", "exhaust"}
  /\ Len(last.groups) >= 3
  /\ \E g, h \in DOMAIN last.groups :
       /\ g # h
       /\ \E m \in DOMAIN last.groups[g].group : \E n \in DOMAIN last.groups[h].group :
            /\ last.groups[g].group[m].itemId = last.groups[h].group[n].itemId
            /\ aabb_intersects(last.groups[g].group[m].aabb, last.groups[h].group[n].aabb)

\* C14: whatever the debug_log callback does with the events, pack completes
\* and returns its plan; no failure of the callback reaches the caller
C14_EmissionNeverAborts == pc # "raised"

\* the hold has positive width, length and height
ValidVehicle(v) == v.innerWidth > 0 /\ v.innerLength > 0 /\ v.innerHeight > 0

\* C15: a call of pack with a vehicle whose inner width, length or height is not
\* positive fails at once, before any iteration and without returning a plan; on
\* a valid vehicle no unit or candidate makes pack end with an exception
C15_PreconditionFails ==
  /\ ~ValidVehicle(vehicle) => pc \in {"init", "raised"}
  /\ (ValidVehicle(vehicle) /\ delivered = <<>>) => pc # "raised"

\* C16: no step changes or removes an entry of the placed list; the list only
\* grows at its end
C16_PlacedPermanent ==
  [][/\ Len(placed') >= Len(placed)
     /\ SubSeq(placed', 1, Len(placed)) = placed]_vars

\* a returned plan whose placed list was built by a pattern commit followed, in
\* later iterations, by at least two single commits
C16_Witness ==
  /\ pc = "done"
  /\ Len(placed) >= 4
  /\ placedFrom[1].pid # None
  /\ \E i, j \in DOMAIN placedFrom :
       /\ placedFrom[i].pid = None /\ placedFrom[j].pid = None
       /\ placedFrom[1].iter < placedFrom[i].iter /\ placedFrom[i].iter < placedFrom[j].iter

\* the input is two units, each within the payload limit and together over it
TwoOverPayload ==
  /\ Len(items) = 2
  /\ ~IsNone(vehicle.payloadMaxKg)
  /\ items[1].weight <= Val(vehicle.payloadMaxKg)
  /\ items[2].weight <= Val(vehicle.payloadMaxKg)
  /\ items[1].weight + items[2].weight > Val(vehicle.payloadMaxKg)

\* the candidates of the unplaced unit in the free space of the returned plan
\* and what can_place says of each
OtherVerdicts ==
  UNION {LET cands == generate_floor_candidates(sorted, <<unplaced[1]>>)
         IN  {[cand |-> cands[k],
               res |-> can_place(placed, vehicle, items_by_id, status, cands[k])] :
                k \in DOMAIN cands} : sorted \in AreaSorted(free_rects)}

\* the returned plan has one of two units placed, at the place its commit in the
\* first iteration reserved, and the other unplaced
OnePlacedOfTwo ==
  /\ Len(placed) = 1
  /\ Len(unplaced) = 1
  /\ unplaced[1].id # placed[1].item.id
  /\ status[unplaced[1].idx] = "unplaced"
  /\ placedFrom[1].iter = 1
  /\ reserved = {<<placed[1].aabb.minX, placed[1].aabb.maxX,
                   placed[1].aabb.minZ, placed[1].aabb.maxZ>>}

\* the statement of C17 without the condition on the empty hold: for any two
\* units, each within the payload limit and together over it, pack places
\* exactly one of them
C17_AnyTwoOverPayload ==
  (pc = "done" /\ TwoOverPayload)
    => /\ OnePlacedOfTwo
       /\ \A c \in OtherVerdicts : ~c.res[1] /\ "payload_limit" \in Range(c.res[2])

\* one of the input units, alone in the empty hold, has a candidate that passes
\* the bounds, collision and load gates
SomeUnitFitsAlone ==
  \E u \in DOMAIN items :
    \E sorted \in AreaSorted(init_for_vehicle(vehicle)) :
      LET cands == generate_floor_candidates(sorted, <<items[u]>>)
      IN  \E k \in DOMAIN cands :
            can_place(<<>>, vehicle, ItemsById(items), [j \in DOMAIN items |-> "ok"],
                      cands[k])[1]

\* C17: for two units, each within the payload limit and together over it, of
\* which at least one passes the gates alone in the empty hold, pack places
\* exactly one; no candidate of the other passes the gates, each that is within
\* the hold's bounds is refused by the load gate over the payload, the other
\* ends up unplaced and the placed one stays where it was committed
C17_LoadGateOnPayload ==
  (pc = "done" /\ TwoOverPayload /\ SomeUnitFitsAlone)
    => /\ OnePlacedOfTwo
       /\ \A c \in OtherVerdicts :
            /\ ~c.res[1]
            /\ check_oob(c.cand, vehicle)[1] => "payload_limit" \in Range(c.res[2])

\* a returned plan for a 700 kg and a 500 kg unit under a payload limit of 1000 kg
C17_Witness ==
  /\ pc = "done"
  /\ TwoOverPayload
  /\ SomeUnitFitsAlone
  /\ Len(placed) = 1
  /\ placed[1].item.weight + unplaced[1].weight = 1200
  /\ \E c \in OtherVerdicts : check_oob(c.cand, vehicle)[1]

\* C18: pack on an empty unit list executes no loop iteration and returns a
\* plan with nothing placed and nothing unplaced, mode mixed with alpha 1/2 and
\* the three pressures 0
C18_EmptyInput ==
  items = <<>>
    => /\ pc # "loop"
       /\ iter = 0
       /\ pc = "done"
            => /\ placed = <<>>
               /\ unplaced = <<>>
               /\ Val(mode).mode = "mixed"
               /\ Val(mode).alpha = Some([n |-> 1, d |-> 2])
               /\ Val(mode).weight_pressure = [n |-> 0, d |-> 1]
               /\ Val(mode).floor_pressure = [n |-> 0, d |-> 1]
               /\ Val(mode).volume_pressure = [n |-> 0, d |-> 1]
               /\ Len(debug) = 1

\* the plan of an empty unit list was returned for the hold with limits, the
\* callback having received the one event of the trail
C18_Witness ==
  /\ pc = "done"
  /\ items = <<>>
  /\ ~IsNone(vehicle.payloadMaxKg)
  /\ Len(delivered) = 1
  /\ delivered[1].evt = "mode_detected"

\* the footprint of unit u fits the floor of the hold in neither rotation
FitsNoRotation(u) ==
  /\ ~(u.width <= vehicle.innerWidth /\ u.length <= vehicle.innerLength)
  /\ ~(u.length <= vehicle.innerWidth /\ u.width <= vehicle.innerLength)

\* C19: when the only input unit fits the floor in neither rotation, pack runs
\* exactly one iteration, which generates no candidate and finds nothing
\* feasible, and returns the unit in the unplaced list with status unplaced and
\* nothing placed
C19_TooLargeForFloor ==
  (Len(items) = 1 /\ FitsNoRotation(items[1]))
    => /\ iter <= 1
       /\ placed = <<>>
       /\ pc = "done"
            => /\ iter = 1
               /\ last.kind = "exhaust"
               /\ last.best_pat = None /\ last.best_single = None
               /\ debug[2].evt = "candidates_generated" /\ debug[2].count = 0
               /\ Len(unplaced) = 1
               /\ unplaced[1].id = items[1].id
               /\ status[items[1].idx] = "unplaced"

\* the plan returned for one unit of 200 x 100 cm and the hold of 160 x 120 cm
C19_Witness ==
  /\ pc = "done"
  /\ Len(items) = 1
  /\ FitsNoRotation(items[1])
  /\ ValidVehicle(vehicle)
  /\ items[1].height <= vehicle.innerHeight
  /\ Len(unplaced) = 1

\* the pressure p is at least MODE_PRESSURE_THRESHOLD
ReachesThreshold(p) ==
  IsOverEps(p) \/ p.n * MODE_PRESSURE_THRESHOLD.d >= MODE_PRESSURE_THRESHOLD.n * p.d

\* the pressure p is above MODE_PRESSURE_THRESHOLD
ExceedsThreshold(p) ==
  IsOverEps(p) \/ p.n * MODE_PRESSURE_THRESHOLD.d > MODE_PRESSURE_THRESHOLD.n * p.d

\* pack has called detect_mode on a unit list that is not empty
ModeDetected == pc \in {"loop", "return", "done", "raised"} /\ items # <<>>

\* C23 as stated: the mode is weight exactly when the weight pressure exceeds
\* the threshold and the floor pressure does not, volume exactly when the floor
\* pressure exceeds it and the weight pressure does not, and mixed otherwise, a
\* pressure equal to the threshold counting as not exceeding it
C23_ModeByExceeding ==
  ModeDetected
    => /\ Val(mode).mode = "weight"
            <=> (ExceedsThreshold(Val(mode).weight_pressure)
                   /\ ~ExceedsThreshold(Val(mode).floor_pressure))
       /\ Val(mode).mode = "volume"
            <=> (ExceedsThreshold(Val(mode).floor_pressure)
                   /\ ~ExceedsThreshold(Val(mode).weight_pressure))
       /\ Val(mode).mode = "mixed"
            <=> (ExceedsThreshold(Val(mode).weight_pressure)
                   <=> ExceedsThreshold(Val(mode).floor_pressure))

\* C23, amended: the mode is weight exactly when the weight pressure is at least
\* the threshold and the floor pressure is below it, volume exactly when the
\* floor pressure is at least the threshold and the weight pressure is below it,
\* and mixed otherwise (both at least the threshold, or both below it)
C23_ModeByReaching ==
  ModeDetected
    => /\ Val(mode).mode = "weight"
            <=> (ReachesThreshold(Val(mode).weight_pressure)
                   /\ ~ReachesThreshold(Val(mode).floor_pressure))
       /\ Val(mode).mode = "volume"
            <=> (ReachesThreshold(Val(mode).floor_pressure)
                   /\ ~ReachesThreshold(Val(mode).weight_pressure))
       /\ Val(mode).mode = "mixed"
            <=> (ReachesThreshold(Val(mode).weight_pressure)
                   <=> ReachesThreshold(Val(mode).floor_pressure))

\* the units weigh exactly the payload limit, the floor pressure is below the
\* threshold, and the mode is weight
C23_Witness ==
  /\ ModeDetected
  /\ ~IsNone(vehicle.payloadMaxKg)
  /\ SumSeq([k \in DOMAIN items |-> items[k].weight]) = Val(vehicle.payloadMaxKg)
  /\ ~ReachesThreshold(Val(mode).floor_pressure)
  /\ Val(mode).mode = "weight"

\* the remaining queue is in ascending order of sort_key_for_queue
QueueSorted ==
  \A i, j \in DOMAIN remaining :
    i < j => ~LexLess(sort_key_for_queue(remaining[j], vehicle, Val(mode)),
                      sort_key_for_queue(remaining[i], vehicle, Val(mode)))

\* C24: from the first iteration on, and after every commit, the remaining queue
\* is in ascending order of (class priority, -K), and while the loop runs it
\* holds exactly the units not yet placed, so that its first units, the
\* candidate window, are those of highest priority among them
C24_QueueOrderKept ==
  pc \in {"loop", "return", "done", "raised"}
    => /\ QueueSorted
       /\ pc = "loop"
            => {remaining[k].id : k \in DOMAIN remaining}
                 = {items[k].id : k \in DOMAIN items} \ {placed[k].item.id : k \in DOMAIN placed}

\* after a commit at least two units of different keys remain, in another order
\* than the one they were given in
C24_Witness ==
  /\ last.kind \in {"pattern", "single"}
  /\ \E i, j \in DOMAIN remaining :
       /\ i < j
       /\ remaining[i].idx > remaining[j].idx
       /\ LexLess(sort_key_for_queue(remaining[i], vehicle, Val(mode)),
                  sort_key_for_queue(remaining[j], vehicle, Val(mode)))

\* the single candidates of the latest iteration that pass can_place and the
\* policy hard rules against the units placed before it, by position in the
\* order they were generated in
FeasibleSingles ==
  {k \in DOMAIN last.singles :
     SingleFeasible(last.singles[k], SubSeq(placed, 1, last.placedBefore), vehicle,
                    items_by_id, status, Val(mode))}

\* C25: in an iteration that commits a single, the committed candidate is a
\* feasible single candidate of that iteration, no feasible single candidate of
\* the iteration has a larger tuple (1, K, used area, policy adjustment) in
\* lexicographic order, and every feasible one generated before the committed
\* one has a smaller tuple
C25_BestSingleIsLexMax ==
  last.kind = "single"
    => \E b \in FeasibleSingles :
         /\ last.singles[b] = Val(last.best_single).cand
         /\ placed[Len(placed)].aabb = last.singles[b].aabb
         /\ placed[Len(placed)].item.id = last.singles[b].itemId
         /\ Val(last.best_single).score
              = SingleScore(last.singles[b], vehicle, items_by_id, Val(mode))
         /\ \A k \in FeasibleSingles :
              /\ ~LexLess(Val(last.best_single).score,
                          SingleScore(last.singles[k], vehicle, items_by_id, Val(mode)))
              /\ k < b => LexLess(SingleScore(last.singles[k], vehicle, items_by_id, Val(mode)),
                                  Val(last.best_single).score)

\* a single was committed in an iteration that had a feasible single with a
\* smaller tuple generated before it and one with an equal tuple generated
\* after it
C25_Witness ==
  /\ last.kind = "single"
  /\ \E b, k, e \in FeasibleSingles :
       /\ last.singles[b] = Val(last.best_single).cand
       /\ k < b /\ b < e
       /\ SingleScore(last.singles[e], vehicle, items_by_id, Val(mode))
            = Val(last.best_single).score

\* the verdict of the pattern loop on group g of the latest iteration, against
\* the units placed and the queue as they were before it
JudgedBefore(g) ==
  JudgeGroup(last.groups[g], SubSeq(placed, 1, last.placedBefore), vehicle, items_by_id,
             status, Val(mode), {last.rem[k].id : k \in DOMAIN last.rem})

\* the tuple a is below the tuple b in the lexicographic order on
\* (1, quality, used area sum, policy sum, K sum)
PatTupleLess(a, b) ==
  \/ a.one < b.one
  \/ /\ a.one = b.one
     /\ \/ FracLT(a.quality, b.quality)
        \/ /\ ~FracLT(b.quality, a.quality)
           /\ LexLess(<<a.used, a.policy, a.k>>, <<b.used, b.policy, b.k>>)

\* C26: in an iteration that commits a pattern group, the committed group is a
\* feasible group of that iteration and no feasible group has a larger tuple
\* (1, geometric quality, summed used area, summed policy adjustment, summed K);
\* so no feasible group of higher quality is passed over, whatever its summed K;
\* and an iteration with a feasible group commits a group whatever the tuple of
\* its best single
C26_BestPatternGeometryFirst ==
  /\ last.kind = "pattern"
       => \E b \in DOMAIN last.groups :
            /\ JudgedBefore(b).verdict = "ok"
            /\ last.groups[b].pid = Val(last.best_pat).pid
            /\ last.groups[b].group = Val(last.best_pat).group
            /\ JudgedBefore(b).score = Val(last.best_pat).score
            /\ \A k \in DOMAIN last.groups[b].group :
                 /\ placedFrom[last.placedBefore + k].pid = last.groups[b].pid
                 /\ placed[last.placedBefore + k].aabb = last.groups[b].group[k].aabb
            /\ \A g \in DOMAIN last.groups :
                 JudgedBefore(g).verdict = "ok"
                   => /\ ~PatTupleLess(Val(last.best_pat).score, JudgedBefore(g).score)
                      /\ ~FracLT(Val(last.best_pat).score.quality, JudgedBefore(g).score.quality)
  /\ (last.kind \in {"pattern", "single"} /\ ~IsNone(last.best_pat)) => last.kind = "pattern"

\* a pattern group was committed although another feasible group of the
\* iteration had a larger summed K and a lower geometric quality, and although
\* the iteration had a feasible single
C26_Witness ==
  /\ last.kind = "pattern"
  /\ \E g \in DOMAIN last.groups :
       /\ JudgedBefore(g).verdict = "ok"
       /\ JudgedBefore(g).score.k > Val(last.best_pat).score.k
       /\ FracLT(JudgedBefore(g).score.quality, Val(last.best_pat).score.quality)
  /\ ~IsNone(last.best_single)

\* mode decisions of every kind: weight, volume, mixed with an alpha at the
\* ends of and inside [0.2, 0.8], mixed without alpha, and the one of the run
ModeDecisionsOfEveryKind ==
  {[mode |-> md, weight_pressure |-> Frac(0, 1), floor_pressure |-> Frac(0, 1),
    volume_pressure |-> Frac(0, 1), alpha |-> None] : md \in {"weight", "volume", "mixed"}}
  \cup {[mode |-> "mixed", weight_pressure |-> Frac(0, 1), floor_pressure |-> Frac(0, 1),
         volume_pressure |-> Frac(0, 1), alpha |-> Some(a)] :
          a \in {Frac(1, 5), Frac(1, 3), Frac(1, 2), Frac(4, 5)}}
  \cup (IF IsNone(mode) THEN {} ELSE {Val(mode)})

\* C27: for every unit of the run and every mode decision, the second component
\* of the queue sort key is minus the K that compute_k returns, and the K in
\* the score tuple of a committed single is the K of its unit's sort key
C27_OneKForOrderAndScore ==
  pc \in {"init", "loop", "return", "done", "raised"}
    => /\ \A k \in DOMAIN items : \A m \in ModeDecisionsOfEveryKind :
            sort_key_for_queue(items[k], vehicle, m)[2] = -compute_k(items[k], m)
       /\ last.kind = "single"
            => Val(last.best_single).score[2]
                 = -sort_key_for_queue(items_by_id[Val(last.best_single).cand.itemId],
                                       vehicle, Val(mode))[2]

\* in a run in mixed mode a unit without ratio was committed as a single while
\* a unit of ratio 2 was in the list
C27_Witness ==
  /\ last.kind = "single"
  /\ Val(mode).mode = "mixed"
  /\ items_by_id[Val(last.best_single).cand.itemId].ratio = 0
  /\ Val(last.best_single).score[2] > 0
  /\ \E k \in DOMAIN items : items[k].ratio = 2

\* the events a step appends to the trail
AddedEvents == SubSeq(debug', Len(debug) + 1, Len(debug'))

\* the events that end an iteration
ClosingEvents == {"pattern_committed", "candidate_chosen", "unplaced_all_remaining"}

\* C30: every step keeps the events already in the trail, in their order; the
\* start of pack appends mode_detected to the empty trail; an iteration appends
\* candidates_generated first and only once, then one of pattern_committed,
\* candidate_chosen and unplaced_all_remaining last and only once; the return
\* appends nothing; unplaced_all_remaining is nowhere but at the end of the trail
C30_EventTrailOrder ==
  [][/\ Len(debug') >= Len(debug)
     /\ SubSeq(debug', 1, Len(debug)) = debug
     /\ pc = "init"
          => debug = <<>> /\ Len(AddedEvents) = 1 /\ AddedEvents[1].evt = "mode_detected"
     /\ pc = "loop"
          => /\ Len(AddedEvents) >= 2
             /\ debug[1].evt = "mode_detected"
             /\ \A k \in DOMAIN AddedEvents :
                  /\ AddedEvents[k].evt = "candidates_generated" <=> k = 1
                  /\ AddedEvents[k].evt \in ClosingEvents <=> k = Len(AddedEvents)
     /\ pc \notin {"init", "loop"} => AddedEvents = <<>>
     /\ \A k \in DOMAIN debug' :
          debug'[k].evt = "unplaced_all_remaining" => k = Len(debug')]_vars

\* a returned plan whose trail has a rejected pattern, a committed pattern, a
\* chosen single and, at its end, the exhaustion event
C30_Witness ==
  /\ pc = "done"
  /\ \E i, j, k \in DOMAIN debug :
       /\ debug[i].evt = "pattern_rejected"
       /\ debug[j].evt = "pattern_committed"
       /\ debug[k].evt = "candidate_chosen"
  /\ debug[Len(debug)].evt = "unplaced_all_remaining"

\* the positions in the trail of the events that name a pattern group
PatternEvents ==
  {k \in DOMAIN debug : debug[k].evt \in {"pattern_committed", "pattern_rejected"}}

\* C31: over a whole run no two pattern groups carry the same identifier.  One
\* iteration judges each of its groups once, so every event pattern_rejected or
\* pattern_committed of the trail is about a group of its own, and no two of
\* these events share a patternId
C31_PatternIdGloballyUnique ==
  \A a, b \in PatternEvents : a # b => debug[a].patternId # debug[b].patternId

\* the sums detect_mode forms over the units
TotalWeight == SumSeq([k \in DOMAIN items |-> Max(0, items[k].weight)])

TotalFloorDemand ==
  SumSeq([k \in DOMAIN items |-> IF items[k].ratio > 0 THEN items[k].ratio ELSE 1])

\* the fill factor of the floor in force for the vehicle
FillFloorInForce ==
  IF IsNone(vehicle.fillFactorFloor) THEN FILL_FACTOR_FLOOR_DEFAULT
  ELSE Val(vehicle.fillFactorFloor)

\* total / divisor for the divisor num / den (den > 0), a divisor that is not
\* positive counting as EPS
Quotient(total, num, den) ==
  IF num > 0 THEN Frac(total * den, num)
  ELSE IF total = 0 THEN Frac(0, 1)
  ELSE [over_eps |-> total]

\* floor-pressure = total floor-demand / (floor area in m2 * fill factor)
FloorPressureAsStated ==
  Val(mode).floor_pressure
    = Quotient(TotalFloorDemand, vehicle.innerWidth * vehicle.innerLength * FillFloorInForce.n,
               10000 * FillFloorInForce.d)

\* C32 as stated: the weight pressure is the total weight over the payload
\* limit when there is one and the total weight itself when there is none; the
\* floor pressure is the total floor demand over floor area times fill factor
C32_PressuresAsStated ==
  ModeDetected
    => /\ Val(mode).weight_pressure
            = IF ~IsNone(vehicle.payloadMaxKg)
              THEN Quotient(TotalWeight, Val(vehicle.payloadMaxKg), 1)
              ELSE Frac(TotalWeight, 1)
       /\ FloorPressureAsStated

\* C32, amended: the weight pressure is the total weight over the payload limit
\* when there is one, and the total weight over the greater of the total weight
\* and 1 when there is none (so 1 for a total weight of 1 kg or more); the floor
\* pressure is the total floor demand over floor area times fill factor; a
\* divisor below EPS counts as EPS
C32_PressuresByCapacity ==
  ModeDetected
    => /\ Val(mode).weight_pressure
            = IF ~IsNone(vehicle.payloadMaxKg)
              THEN Quotient(TotalWeight, Val(vehicle.payloadMaxKg), 1)
              ELSE Quotient(TotalWeight, Max(TotalWeight, 1), 1)
       /\ FloorPressureAsStated

\* units of several hundred kg, one of them with a floor demand of two places,
\* in a hold with a floor and without a payload limit: the weight pressure is 1
C32_Witness ==
  /\ ModeDetected
  /\ IsNone(vehicle.payloadMaxKg)
  /\ TotalWeight > 1
  /\ Val(mode).weight_pressure = Frac(1, 1)
  /\ vehicle.innerWidth > 0
  /\ \E k \in DOMAIN items : items[k].ratio > 1

\* a is the fraction num / den (den > 0) brought into [1/5, 4/5]
IsClamped(a, num, den) ==
  IF 5 * num < den THEN a = [n |-> 1, d |-> 5]
  ELSE IF 5 * num > 4 * den THEN a = [n |-> 4, d |-> 5]
  ELSE a.n * den = num * a.d

\* a is (wp - fp + 1) / 2 brought into [1/5, 4/5]; a pressure total / EPS
\* outweighs every pressure of the grid and the 1
AlphaOfPressures(a, wp, fp) ==
  IF IsOverEps(wp) /\ IsOverEps(fp)
  THEN IsClamped(a, wp.over_eps - fp.over_eps + 1, 2)
  ELSE IF IsOverEps(wp) THEN a = [n |-> 4, d |-> 5]
  ELSE IF IsOverEps(fp) THEN a = [n |-> 1, d |-> 5]
  ELSE IsClamped(a, wp.n * fp.d - fp.n * wp.d + wp.d * fp.d, 2 * wp.d * fp.d)

\* C33: when detect_mode returns mixed for a unit list that is not empty, alpha
\* is (weight pressure - floor pressure + 1) / 2 clamped to [0.2, 0.8], hence
\* between 0.2 and 0.8; in the modes weight and volume there is no alpha
C33_BlendFactorRange ==
  ModeDetected
    => IF Val(mode).mode = "mixed"
       THEN /\ ~IsNone(Val(mode).alpha)
            /\ Val(Val(mode).alpha).d > 0
            /\ 5 * Val(Val(mode).alpha).n >= Val(Val(mode).alpha).d
            /\ 5 * Val(Val(mode).alpha).n <= 4 * Val(Val(mode).alpha).d
            /\ AlphaOfPressures(Val(Val(mode).alpha), Val(mode).weight_pressure,
                                Val(mode).floor_pressure)
       ELSE IsNone(Val(mode).alpha)

\* a mixed run of light units that fill most of the floor: the raw value is
\* below 0.2 and alpha is 0.2
C33_Witness ==
  /\ ModeDetected
  /\ Val(mode).mode = "mixed"
  /\ ~IsOverEps(Val(mode).weight_pressure)
  /\ ~IsOverEps(Val(mode).floor_pressure)
  /\ FracLT(RawAlpha(Val(mode).weight_pressure, Val(mode).floor_pressure), [n |-> 1, d |-> 5])
  /\ Val(mode).alpha = Some([n |-> 1, d |-> 5])

\* how many entries of a list of units are the input unit at position k
UnitCount(units, k) == Cardinality({j \in DOMAIN units : units[j].idx = k})

\* how many entries of placed hold the input unit at position k
PlacedCount(k) == Cardinality({j \in DOMAIN placed : placed[j].item.idx = k})

\* the ids of the input are pairwise distinct
DistinctIds == \A i, j \in DOMAIN items : i # j => items[i].id # items[j].id

\* when the loop has ended, every input unit is once in placed or once in
\* unplaced, and in one of the two only
AccountedInPlan ==
  pc \in {"return", "done", "raised"}
    => \A k \in DOMAIN items : PlacedCount(k) + UnitCount(unplaced, k) = 1

\* C35 as stated: for pairwise distinct ids every input unit is exactly once in
\* placed or unplaced of the returned plan, and at every point of the run, from
\* the first test of the loop to the return, placed, remaining and unplaced
\* partition the input
C35_PartitionAtEveryPoint ==
  DistinctIds
    => /\ AccountedInPlan
       /\ pc \in {"loop", "return", "done", "raised"}
            => \A k \in DOMAIN items :
                 PlacedCount(k) + UnitCount(remaining, k) + UnitCount(unplaced, k) = 1

\* C35, amended: for pairwise distinct ids every input unit is exactly once in
\* placed or unplaced of the returned plan, and at every test of the loop
\* condition placed, remaining and unplaced partition the input; an exhaustion
\* ends the loop with its units in unplaced and still in remaining
C35_PartitionAtLoopTest ==
  DistinctIds
    => /\ AccountedInPlan
       /\ pc = "loop"
            => \A k \in DOMAIN items :
                 PlacedCount(k) + UnitCount(remaining, k) + UnitCount(unplaced, k) = 1
       /\ (pc \in {"return", "done", "raised"} /\ remaining # <<>>)
            => \A k \in DOMAIN items : UnitCount(remaining, k) = UnitCount(unplaced, k)

\* a returned plan with placed and unplaced units, after a run of two or more
\* commits that ended by exhaustion
C35_Witness ==
  /\ pc = "done"
  /\ DistinctIds
  /\ Len(placed) >= 2
  /\ unplaced # <<>>
  /\ remaining = unplaced

\* the units placed before the latest iteration
PlacedBefore == SubSeq(placed, 1, last.placedBefore)

\* the loop has run an iteration, described in last
IterationDone == last.kind \in {"exhaust", "pattern", "single"}

\* the floor footprint of a candidate
FootprintOf(c) == <<c.aabb.minX, c.aabb.maxX, c.aabb.minZ, c.aabb.maxZ>>

\* the candidate is too high for the hold
TooHigh(c) == c.aabb.maxY > vehicle.innerHeight

\* the load gate refuses the candidate on top of the units placed before
LoadGateRefuses(c) ==
  ~check_loads(compute_loads(Append(PlacedBefore,
                                    placed_from_candidate(c, items_by_id[c.itemId], "ok")),
                             vehicle), vehicle)[1]

\* C37: every single candidate of an iteration has its footprint inside the free
\* rectangle it was anchored to, at one of that rectangle's corners, so it lies
\* within the hold in X and Z and meets no unit placed before: can_place refuses
\* a single only for its height or by the load gate
C37_SinglesInsideFreeSpace ==
  IterationDone
    => \A k \in DOMAIN last.singles :
         LET c == last.singles[k]
             r == c.meta.rect
         IN  /\ r[1] <= c.aabb.minX /\ c.aabb.maxX <= r[2]
             /\ r[3] <= c.aabb.minZ /\ c.aabb.maxZ <= r[4]
             /\ c.aabb.minX = r[1] \/ c.aabb.maxX = r[2]
             /\ c.aabb.minZ = r[3] \/ c.aabb.maxZ = r[4]
             /\ last.kind = "exhaust" => r \in Range(free_rects)
             /\ 2 * c.aabb.minX >= -vehicle.innerWidth /\ 2 * c.aabb.maxX <= vehicle.innerWidth
             /\ 2 * c.aabb.minZ >= -vehicle.innerLength /\ 2 * c.aabb.maxZ <= vehicle.innerLength
             /\ \A j \in DOMAIN PlacedBefore :
                  \/ c.aabb.maxX <= PlacedBefore[j].aabb.minX
                  \/ c.aabb.minX >= PlacedBefore[j].aabb.maxX
                  \/ c.aabb.maxZ <= PlacedBefore[j].aabb.minZ
                  \/ c.aabb.minZ >= PlacedBefore[j].aabb.maxZ
             /\ can_place(PlacedBefore, vehicle, items_by_id, status, c)[2]
                  \in {<<>>, <<"oob">>, <<"payload_limit">>, <<"axleA_limit">>,
                       <<"axleB_limit">>, <<"payload_limit", "axleA_limit">>,
                       <<"payload_limit", "axleB_limit">>, <<"axleA_limit", "axleB_limit">>,
                       <<"payload_limit", "axleA_limit", "axleB_limit">>}
             /\ ~can_place(PlacedBefore, vehicle, items_by_id, status, c)[1]
                  => TooHigh(c) \/ LoadGateRefuses(c)

\* an iteration after two or more commits whose single candidates lie in two or
\* more free rectangles, one of them refused by the load gate alone and one
\* accepted
C37_Witness ==
  /\ IterationDone
  /\ last.placedBefore >= 2
  /\ \E b, c \in DOMAIN last.singles :
       /\ ~TooHigh(last.singles[b]) /\ LoadGateRefuses(last.singles[b])
       /\ can_place(PlacedBefore, vehicle, items_by_id, status, last.singles[c])[1]
       /\ last.singles[b].meta.rect # last.singles[c].meta.rect

\* the candidates an iteration described by L committed, in the order of commit
ChosenOf(L) ==
  IF L.kind = "pattern" THEN Val(L.best_pat).group
  ELSE IF L.kind = "single" THEN <<Val(L.best_single).cand>>
  ELSE <<>>

RECURSIVE ReserveAll(_, _)
\* the free rectangles after the footprints of the candidates are reserved one
\* after the other
ReserveAll(fr, cands) ==
  IF cands = <<>> THEN fr ELSE ReserveAll(reserve(fr, UsedOf(Head(cands))), Tail(cands))

\* the bucket under which the pattern loop rejects group g of the current
\* state's queue and placed list, or "ok"; the gate reasons are sorted into
\* buckets here as packer.py lines 77-89 sort them
BucketOf(g) ==
  LET ids == {remaining[k].id : k \in DOMAIN remaining}
      j == JudgeGroup(g, placed, vehicle, items_by_id, status, Val(mode), ids)
      gate == _can_commit_group(placed, vehicle, items_by_id, status, g.group)
  IN  IF j.verdict \in {"ok", "not_available", "policy_hard"} THEN j.verdict
      ELSE IF gate[2][1] = "pattern_internal_collision" THEN "internal_collision"
      ELSE IF gate[2][1] \in {"oob", "collision"} THEN gate[2][1]
      ELSE "axles"

\* the groups of L the pattern loop rejects, by position, in order
RejectedGroups(L) ==
  SelectSeq([g \in DOMAIN L.groups |-> g], LAMBDA g : BucketOf(L.groups[g]) # "ok")

\* The plan state after an iteration is the state before it with the chosen
\* candidates committed, and nothing else: placed gains their entries, the free
\* rectangles lose their footprints, loads is recomputed from placed if there was
\* a commit, unplaced gains the queue if there was none
OnlyTheCommitChanges ==
  /\ placed' = placed \o [k \in DOMAIN ChosenOf(last') |->
                            placed_from_candidate(ChosenOf(last')[k],
                              items_by_id[ChosenOf(last')[k].itemId],
                              status[items_by_id[ChosenOf(last')[k].itemId].idx])]
  /\ free_rects' = ReserveAll(free_rects, ChosenOf(last'))
  /\ loads' = IF ChosenOf(last') = <<>> THEN loads ELSE Some(compute_loads(placed', vehicle))
  /\ unplaced' = IF last'.kind = "exhaust" THEN unplaced \o remaining ELSE unplaced

\* the events of an iteration between candidates_generated and the closing event
MiddleEvents == SubSeq(AddedEvents, 2, Len(AddedEvents) - 1)

\* the events pattern_rejected of the iteration are those of its rejected
\* groups, in order, up to the log limit
RejectedEventsMatch ==
  LET rej == RejectedGroups(last')
      nlog == Min(Len(rej), PATTERN_REJECT_LOG_LIMIT)
  IN  /\ Len(SelectSeq(MiddleEvents, LAMBDA e : e.evt = "pattern_rejected")) = nlog
      /\ \A k \in 1..nlog :
           /\ MiddleEvents[k].evt = "pattern_rejected"
           /\ MiddleEvents[k].patternId = last'.groups[rej[k]].pid
           /\ MiddleEvents[k].reason = BucketOf(last'.groups[rej[k]])

\* C38 as stated: the feasibility checks change nothing of placed, unplaced, the
\* free rectangles, loads and the trail, so an iteration changes them by its
\* commit only, and the rejected candidates and groups show in nothing but the
\* events pattern_rejected: no other event of the iteration counts a rejection
C38_NoTraceButRejectedEvents ==
  [][pc = "loop"
       => /\ OnlyTheCommitChanges
          /\ RejectedEventsMatch
          /\ \A k \in DOMAIN MiddleEvents :
               MiddleEvents[k].evt # "pattern_rejected"
                 => /\ MiddleEvents[k].logged = 0
                    /\ DOMAIN MiddleEvents[k].stats = {}]_vars

\* C38, amended: the feasibility checks change nothing of placed, unplaced, the
\* free rectangles, loads and the trail, so an iteration changes them by its
\* commit only; the rejected singles show nowhere, and the rejected groups show
\* in the events pattern_rejected and in the counts of the event
\* pattern_reject_summary (logged, and stats by reason bucket) and nowhere else
C38_NoTraceButRejectEventsAndSummary ==
  [][pc = "loop"
       => /\ OnlyTheCommitChanges
          /\ RejectedEventsMatch
          /\ \A k \in DOMAIN MiddleEvents :
               MiddleEvents[k].evt # "pattern_rejected"
                 => LET s == MiddleEvents[k]
                        rej == RejectedGroups(last')
                        Bucket(i) == BucketOf(last'.groups[rej[i]])
                    IN  /\ k = Len(MiddleEvents)
                        /\ s = [evt |-> "pattern_reject_summary",
                                groups |-> Len(last'.groups),
                                logged |-> Min(Len(rej), PATTERN_REJECT_LOG_LIMIT),
                                stats |-> [b \in {Bucket(i) : i \in DOMAIN rej} |->
                                             Cardinality({i \in DOMAIN rej : Bucket(i) = b})],
                                logLimit |-> PATTERN_REJECT_LOG_LIMIT]]_vars

\* an iteration after a commit that rejected a group, refused a single and
\* committed another group
C38_Witness ==
  /\ last.kind = "pattern"
  /\ last.placedBefore >= 1
  /\ \E g \in DOMAIN last.groups : JudgedBefore(g).verdict # "ok"
  /\ \E k \in DOMAIN last.singles : k \notin FeasibleSingles

\* the events of the trail that record a commit
CommitEvents ==
  SelectSeq(debug, LAMBDA e : e.evt \in {"pattern_committed", "candidate_chosen"})

\* the ids the commit events name, in trail order
CommittedIdsOfTrail ==
  Concat([k \in DOMAIN CommitEvents |->
            IF CommitEvents[k].evt = "pattern_committed" THEN CommitEvents[k].itemIds
            ELSE <<CommitEvents[k].itemId>>])

\* the count of unplaced_all_remaining, 0 when the trail has no such event
ReportedUnplaced ==
  LET ev == SelectSeq(debug, LAMBDA e : e.evt = "unplaced_all_remaining")
  IN  IF ev = <<>> THEN 0 ELSE ev[1].count

\* C39: at the end of a run the ids of the placed list, in order, are the
\* itemIds of the events pattern_committed and the itemId of the events
\* candidate_chosen in trail order, and the count of unplaced_all_remaining (0
\* without that event) is the length of the unplaced list
C39_TrailMatchesPlan ==
  pc \in {"done", "raised"}
    => /\ [k \in DOMAIN placed |-> placed[k].item.id] = CommittedIdsOfTrail
       /\ ReportedUnplaced = Len(unplaced)

\* a returned plan after a pattern was committed, then a single chosen, and
\* units were left unplaced
C39_Witness ==
  /\ pc = "done"
  /\ unplaced # <<>>
  /\ \E i, j \in DOMAIN debug :
       /\ i < j
       /\ debug[i].evt = "pattern_committed"
       /\ debug[j].evt = "candidate_chosen"

-----------------------------------------------------------------------------
(* The free-space tracker on its own: init_for_vehicle followed by any      *)
(* sequence of reserve calls with rectangles inside the floor.              *)

\* bound: number of distinct rectangles reserved in one run
MaxReserves == 2

\* floors of the tracker runs (innerWidth x innerLength, in grid units)
ReserveFloors == {[innerWidth |-> 4, innerLength |-> 4], [innerWidth |-> 2, innerLength |-> 6]}

\* every rectangle of positive area with integer corners inside the floor of v
RectsInside(v) ==
  LET hw == v.innerWidth \div 2
      hl == v.innerLength \div 2
  IN  {<<x0, x1, z0, z1>> : x0 \in -hw..hw, x1 \in -hw..hw, z0 \in -hl..hl, z1 \in -hl..hl}
      \cap {r \in (-hw..hw) \X (-hw..hw) \X (-hl..hl) \X (-hl..hl) : r[1] < r[2] /\ r[3] < r[4]}

InitReserve ==
  /\ pc = "reserve"
  /\ vehicle \in ReserveFloors
  /\ free_rects = init_for_vehicle(vehicle)
  /\ reserved = {}
  /\ last = NoLast
  /\ items = <<>> /\ mode = None /\ items_by_id = <<>> /\ remaining = <<>>
  /\ placed = <<>> /\ unplaced = <<>> /\ loads = None /\ debug = <<>> /\ delivered = <<>>
  /\ status = <<>> /\ iter = 0 /\ placedFrom = <<>> /\ runs = <<>> /\ heap = <<>>
  /\ SETTINGS = DefaultSettings

\* FreeRects.reserve(used)
Reserve ==
  /\ pc = "reserve"
  /\ Cardinality(reserved) < MaxReserves
  /\ \E used \in RectsInside(vehicle) \ reserved :
       /\ free_rects' = reserve(free_rects, used)
       /\ reserved' = reserved \cup {used}
       /\ last' = [kind |-> "reserve", used |-> used,
                   split |-> prune_contained(SplitAll(free_rects, used))]
  /\ UNCHANGED <<SETTINGS, pc, items, vehicle, mode, items_by_id, remaining, placed, unplaced,
                 loads, debug, delivered, status, iter, placedFrom, runs, heap>>

NextReserve == Reserve

SpecReserve == InitReserve /\ [][NextReserve]_vars

\* the unit grid cells covered by a rectangle
Cells(r) == {<<x, z>> : x \in r[1]..(r[2] - 1), z \in r[3]..(r[4] - 1)}

\* two rectangles share positive area
Overlap(a, b) ==
  /\ Max(a[1], b[1]) < Min(a[2], b[2])
  /\ Max(a[3], b[3]) < Min(a[4], b[4])

\* C5: no free rectangle overlaps, with positive area, a rectangle that was reserved
C5_FreeNeverOverlapsReserved ==
  \A i \in DOMAIN free_rects : \A u \in reserved : ~Overlap(free_rects[i], u)

\* two overlapping rectangles were reserved and free space is left in pieces
C5_Witness ==
  /\ last.kind = "reserve"
  /\ Len(free_rects) >= 2
  /\ \E u, w \in reserved : u # w /\ Overlap(u, w)

\* C6: the free rectangles cover exactly the floor minus the reserved rectangles
C6_FreeIsExactDecomposition ==
  pc = "reserve" =>
    UNION {Cells(free_rects[i]) : i \in DOMAIN free_rects}
      = Cells(init_for_vehicle(vehicle)[1]) \ UNION {Cells(u) : u \in reserved}

\* the second reserve call split the free space and the merge step joined pieces
C6_Witness ==
  /\ last.kind = "reserve"
  /\ Cardinality(reserved) >= 2
  /\ Len(last.split) > Len(free_rects)
  /\ free_rects # <<>>

\* C7: distinct free rectangles neither overlap nor contain one another
C7_FreeDisjointUnnested ==
  \A i, j \in DOMAIN free_rects :
    i # j => /\ ~Overlap(free_rects[i], free_rects[j])
             /\ ~rect_contains(free_rects[i], free_rects[j])

\* a reserve call in the middle of the floor left at least three free rectangles
C7_Witness ==
  /\ last.kind = "reserve"
  /\ Len(free_rects) >= 3
  /\ \E i, j \in DOMAIN free_rects :
       i # j /\ free_rects[i][2] = free_rects[j][1]
             /\ Max(free_rects[i][3], free_rects[j][3]) < Min(free_rects[i][4], free_rects[j][4])

\* the rectangles a and b span the same interval on one axis and touch or
\* overlap on the other
Mergeable(a, b) ==
  \/ (a[3] = b[3] /\ a[4] = b[4] /\ a[2] >= b[1] /\ b[2] >= a[1])
  \/ (a[1] = b[1] /\ a[2] = b[2] /\ a[4] >= b[3] /\ b[4] >= a[3])

-----------------------------------------------------------------------------
(* Two pack runs side by side.  A run is the record of pack's locals and of  *)
(* its PlanState; one step of a run is what pack does at "init", in one     *)
(* iteration of the loop, or at "return", written as a function of the run. *)
(* In runs the fields debug, placed, unplaced and free_rects of a started   *)
(* run hold the addresses in heap of the objects the PlanState refers to.   *)

\* pack before its first line, for the arguments its and v
InitRun(its, v) ==
  [pc |-> "init", items |-> its, vehicle |-> v, mode |-> None, items_by_id |-> <<>>,
   remaining |-> <<>>, placed |-> <<>>, unplaced |-> <<>>, free_rects |-> <<>>,
   loads |-> None, debug |-> <<>>, delivered |-> <<>>,
   status |-> [k \in DOMAIN its |-> "ok"], iter |-> 0, met |-> FALSE]

\* lines 166-190 on the run V
StartStep(V) ==
  LET Started(m, sorted) ==
        [V EXCEPT !.pc = LoopTest(sorted), !.mode = Some(m),
                  !.free_rects = init_for_vehicle(V.vehicle),
                  !.items_by_id = ItemsById(V.items),
                  !.debug = @ \o << [evt |-> "mode_detected", mode |-> m.mode,
                                     weight_pressure |-> m.weight_pressure,
                                     floor_pressure |-> m.floor_pressure,
                                     volume_pressure |-> m.volume_pressure,
                                     alpha |-> m.alpha] >>,
                  !.remaining = sorted]
      WithMode(m) ==
        Started(m, StableSort(V.items, [k \in DOMAIN V.items |->
                                          sort_key_for_queue(V.items[k], V.vehicle, m)]))
  IN  WithMode(detect_mode(V.items, V.vehicle))

\* lines 190-386 on the run V: one iteration, sorted being the free rectangles
\* by area
IterStep(V, sorted) ==
  LET Exhausted(it, gone) ==
        [V EXCEPT !.pc = "return", !.iter = @ + 1,
                  !.status = [k \in DOMAIN @ |->
                                IF \E j \in DOMAIN gone : gone[j].idx = k THEN "unplaced"
                                ELSE @[k]],
                  !.unplaced = @ \o gone,
                  !.debug = @ \o it.events
                              \o << [evt |-> "unplaced_all_remaining",
                                     count |-> Len(V.remaining)] >>]
      Committed(it, S, rem2, event) ==
        [V EXCEPT !.pc = LoopTest(rem2), !.iter = @ + 1, !.placed = S.placed,
                  !.free_rects = S.free_rects, !.loads = S.loads, !.remaining = rem2,
                  !.debug = @ \o it.events \o <<event>>]
      Before == [placed |-> V.placed, free_rects |-> V.free_rects, loads |-> V.loads,
                 placedFrom |-> <<>>]
      Pattern(it, bp, committed_ids) ==
        Committed(it,
                  CommitGroup(Before, V.vehicle, V.items_by_id, V.status, bp.group,
                              [iter |-> V.iter + 1, of |-> Len(bp.group)]),
                  RemoveIds(V.remaining, Range(committed_ids)),
                  [evt |-> "pattern_committed", patternId |-> bp.pid, count |-> Len(bp.group),
                   itemIds |-> committed_ids, score |-> bp.score])
      Single(it, bs, pol) ==
        Committed(it,
                  commit(Before, V.vehicle, V.items_by_id, V.status, bs.cand,
                         [iter |-> V.iter + 1, of |-> 1]),
                  RemoveIds(V.remaining, {bs.cand.itemId}),
                  [evt |-> "candidate_chosen", itemId |-> bs.cand.itemId,
                   kind |-> bs.cand.kind, score |-> bs.score,
                   policy |-> [zone |-> pol.tags.zone, class |-> pol.tags.class,
                               hi |-> pol.tags.hi, bonus |-> pol.zone_bonus,
                               penalty |-> pol.zone_penalty]])
      Choice(it, chosen) ==
        IF chosen = "exhausted" THEN Exhausted(it, ExhaustUnits(V.remaining))
        ELSE IF chosen = "pattern"
        THEN Pattern(it, Val(it.best_pat),
                     [k \in DOMAIN Val(it.best_pat).group |-> Val(it.best_pat).group[k].itemId])
        ELSE Single(it, Val(it.best_single),
                    evaluate_candidate_policy(V.items_by_id[Val(it.best_single).cand.itemId],
                                              Val(it.best_single).cand, V.vehicle, Val(V.mode),
                                              PolicySettings, PACK_ALLOW_HARD_RULES))
      Decide(it) == Choice(it, Chosen(it.best_pat, it.best_single))
  IN  Decide(Iteration(V.remaining, V.placed, sorted, V.vehicle, V.items_by_id, V.status,
                       Val(V.mode)))

\* lines 388-394 on the run V, for every debug_log
ReturnSteps(V) ==
  {[V EXCEPT !.pc = IF rp.raised THEN "raised" ELSE "done", !.delivered = rp.delivered] :
     rp \in {Replay(debug_log, V.debug) : debug_log \in DebugLogs}}

\* the runs one step of pack leads to from the run V
PackSteps(V) ==
  IF V.pc = "init" THEN {StartStep(V)}
  ELSE IF V.pc = "loop" THEN {IterStep(V, sorted) : sorted \in AreaSorted(V.free_rects)}
  ELSE IF V.pc = "return" THEN ReturnSteps(V)
  ELSE {}

\* a default shared by all instances: field number k of every PlanState refers
\* to the one object made for the first instance
DefaultOfClass(h, k) == IF k <= Len(h) THEN k ELSE Len(h) + 1

\* field(default_factory=...): field number k of a new PlanState refers to a
\* new object, whose address is the next one of the heap h
DefaultFactory(h, k) == Len(h) + 1

\* the heap h with an empty object at address a, if a is new
Alloc(h, a) == IF a > Len(h) THEN Append(h, <<>>) ELSE h

\* PlanState(...) followed by init_free_rects: the addresses of the debug,
\* placed and unplaced lists and of the FreeRects object made by
\* init_for_vehicle, and the heap with them
NewPlanState(h) ==
  LET Free(d, p, u, h3) ==
        [debug |-> d, placed |-> p, unplaced |-> u, free_rects |-> Len(h3) + 1,
         heap |-> Append(h3, <<>>)]
      Unplaced(d, p, u, h2) == Free(d, p, u, Alloc(h2, u))
      Placed(d, p, h1) == Unplaced(d, p, DefaultFactory(Alloc(h1, p), 3), Alloc(h1, p))
      Debug(d) == Placed(d, DefaultFactory(Alloc(h, d), 2), Alloc(h, d))
  IN  Debug(DefaultFactory(h, 1))

\* the run R of runs with the contents of its objects in place of the addresses
Deref(R) ==
  IF R.pc = "init" THEN R
  ELSE [R EXCEPT !.debug = heap[@], !.placed = heap[@], !.unplaced = heap[@],
                 !.free_rects = heap[@]]

\* bound: number of units handed to each of the two runs
MaxItemsTwo == 2

\* the arguments of the two runs: units of the kinds 1 and 4, the standard
\* pallet and the 140 x 120 pallet, and the valid holds without limits
TwoInputs ==
  {InitRun(its, v) :
     its \in {MakeItems(ks) :
                ks \in {f \in UNION {[1..n -> {1, 4}] : n \in 0..MaxItemsTwo} :
                          \A k \in 1..(Len(f) - 1) : f[k] <= f[k + 1]}},
     v \in {w \in Vehicles : w.innerWidth > 0 /\ w.innerHeight > 0 /\ IsNone(w.payloadMaxKg)}}

InitTwo ==
  /\ pc = "two"
  /\ runs \in [1..2 -> TwoInputs]
  /\ heap = <<>>
  /\ SETTINGS = DefaultSettings
  /\ items = <<>> /\ vehicle = <<>> /\ mode = None /\ items_by_id = <<>> /\ remaining = <<>>
  /\ placed = <<>> /\ unplaced = <<>> /\ free_rects = <<>> /\ loads = None /\ debug = <<>>
  /\ delivered = <<>> /\ status = <<>> /\ iter = 0 /\ last = NoLast /\ placedFrom = <<>>
  /\ reserved = {}

\* the run W, computed on contents, stored for run i: the contents go to the
\* objects at the addresses a, the addresses stay in the run
Stored(i, W, a, h) ==
  /\ runs' = [runs EXCEPT ![i] = [W EXCEPT !.debug = a.debug, !.placed = a.placed,
                                           !.unplaced = a.unplaced,
                                           !.free_rects = a.free_rects]]
  /\ heap' = [h EXCEPT ![a.debug] = W.debug, ![a.placed] = W.placed,
                       ![a.unplaced] = W.unplaced, ![a.free_rects] = W.free_rects]

\* run i executes lines 166-190: its PlanState is made and filled
StartRun(i) ==
  /\ runs[i].pc = "init"
  /\ \E n \in {NewPlanState(heap)} :
     \E W \in PackSteps([runs[i] EXCEPT !.debug = n.heap[n.debug], !.placed = n.heap[n.placed],
                                        !.unplaced = n.heap[n.unplaced]]) :
       Stored(i, W, n, n.heap)
  /\ UNCHANGED <<SETTINGS, pc, items, vehicle, mode, items_by_id, remaining, placed, unplaced,
                 free_rects, loads, debug, delivered, status, iter, last, placedFrom, reserved>>

\* run i executes one iteration of its loop, or returns
StepRun(i) ==
  /\ runs[i].pc \in {"loop", "return"}
  /\ \E W \in PackSteps(Deref(runs[i])) :
       Stored(i, [W EXCEPT !.met = @ \/ (runs[i].pc = "loop" /\ runs[3 - i].pc = "loop"
                                           /\ runs[3 - i].iter >= 1)],
              runs[i], heap)
  /\ UNCHANGED <<SETTINGS, pc, items, vehicle, mode, items_by_id, remaining, placed, unplaced,
                 free_rects, loads, debug, delivered, status, iter, last, placedFrom, reserved>>

NextTwo == \E i \in 1..2 : StartRun(i) \/ StepRun(i)

SpecTwo == InitTwo /\ [][NextTwo]_vars

\* the plan of a run: what snapshot returns
PlanOf(V) ==
  [placed |-> V.placed, unplaced |-> V.unplaced, loads |-> V.loads, mode |-> V.mode,
   debug |-> V.debug]

RECURSIVE AloneAtReturn(_)
\* the runs at "return" that pack, run alone from V, can reach
AloneAtReturn(V) ==
  IF V.pc = "return" THEN {V}
  ELSE UNION {AloneAtReturn(W) : W \in PackSteps(V)}

\* the objects run i refers to
ObjectsOf(i) ==
  IF runs[i].pc = "init" THEN {}
  ELSE {runs[i].debug, runs[i].placed, runs[i].unplaced, runs[i].free_rects}

\* C20: of two pack runs on separate unit lists, interleaved iteration by
\* iteration in any order, each ends with a plan it can end with when run alone,
\* and the two PlanStates share no placed list, unplaced list, free-rectangle
\* set or event trail
C20_IndependentPlans ==
  pc = "two"
    => /\ ObjectsOf(1) \cap ObjectsOf(2) = {}
       /\ \A i \in 1..2 :
            runs[i].pc \in {"return", "done", "raised"}
              => PlanOf(Deref(runs[i]))
                   \in {PlanOf(V) : V \in AloneAtReturn(InitRun(runs[i].items,
                                                                runs[i].vehicle))}

\* both runs returned plans with units placed, for different unit lists, after
\* each executed an iteration while the other was in the middle of its loop
C20_Witness ==
  /\ pc = "two"
  /\ runs[1].pc = "done" /\ runs[2].pc = "done"
  /\ runs[1].met /\ runs[2].met
  /\ runs[1].items # runs[2].items
  /\ Len(heap[runs[1].placed]) >= 2
  /\ Len(heap[runs[2].placed]) >= 1
  /\ Len(heap[runs[2].unplaced]) >= 1

-----------------------------------------------------------------------------
(* solve: pack, then reopt on the plan pack returned.  In runs the field run *)
(* is the pack run inside solve, result is what the reopt call came to, if   *)
(* it was made, and caller tells whether solve or a direct call made it.     *)

\* ReoptConfig(enabled=...), max_iters at its default
ReoptConfigs == {[enabled |-> e, max_iters |-> 20] : e \in BOOLEAN}

\* a local search in place of the stub: the unit placed last is taken out
reopt_local_search(plan, debug_log, cfg) ==
  LET Searched == IF cfg.enabled /\ plan.placed # <<>>
                  THEN [plan EXCEPT !.placed = SubSeq(@, 1, Len(@) - 1)]
                  ELSE plan
      Called(rp) == [raised |-> rp.raised, delivered |-> rp.delivered,
                     plan |-> IF rp.raised THEN None ELSE Some(Searched)]
  IN  Called(Replay(debug_log, <<[evt |-> "reopt_done", changed |-> TRUE]>>))

\* reopt: the events handed to debug_log, whether a call of it raised, and the
\* plan returned when none did
reopt(plan, debug_log, cfg) ==
  LET Events == IF ~cfg.enabled
                THEN << [evt |-> "reopt_skipped", enabled |-> FALSE] >>
                ELSE << [evt |-> "reopt_started", max_iters |-> cfg.max_iters,
                         placed |-> Len(plan.placed), unplaced |-> Len(plan.unplaced)],
                        [evt |-> "reopt_done", changed |-> FALSE] >>
      Called(rp) == [raised |-> rp.raised, delivered |-> rp.delivered,
                     plan |-> IF rp.raised THEN None ELSE Some(plan)]
  IN  Called(Replay(debug_log, Events))

\* the holds of solve: every hold, and the hold with axle limits once without
\* the position of axle A and once with both axles at the same position
SolveVehicles ==
  Vehicles
    \cup {[v EXCEPT !.axleAPosFromHeadM = None] : v \in {w \in Vehicles : ~IsNone(w.axleALimitKg)}}
    \cup {[v EXCEPT !.axleBPosFromHeadM = v.axleAPosFromHeadM] :
            v \in {w \in Vehicles : ~IsNone(w.axleALimitKg)}}

\* the arguments of solve: units of the kinds 1, 4 and 6 and every hold
SolveInputs ==
  {InitRun(MakeItems(ks), v) :
     ks \in {f \in UNION {[1..n -> {1, 4, 6}] : n \in 0..MaxItemsTwo} :
               \A k \in 1..(Len(f) - 1) : f[k] <= f[k + 1]},
     v \in SolveVehicles}

InitSolve ==
  /\ pc = "solve"
  /\ runs \in {[run |-> V, result |-> None, caller |-> "none"] : V \in SolveInputs}
  /\ SETTINGS \in {[POLICY_HARD_OVERSIZE_IN_D |-> b] : b \in BOOLEAN}
  /\ heap = <<>>
  /\ items = <<>> /\ vehicle = <<>> /\ mode = None /\ items_by_id = <<>> /\ remaining = <<>>
  /\ placed = <<>> /\ unplaced = <<>> /\ free_rects = <<>> /\ loads = None /\ debug = <<>>
  /\ delivered = <<>> /\ status = <<>> /\ iter = 0 /\ last = NoLast /\ placedFrom = <<>>
  /\ reserved = {}

\* entrypoint.py line 14: pack runs, one step at a time
SolvePack ==
  /\ IsNone(runs.result)
  /\ \E W \in PackSteps(runs.run) : runs' = [runs EXCEPT !.run = W]
  /\ UNCHANGED <<SETTINGS, pc, items, vehicle, mode, items_by_id, remaining, placed, unplaced, free_rects,
                 loads, debug, delivered, status, iter, last, placedFrom, reserved, heap>>

\* entrypoint.py line 16: pack returned, solve calls reopt with enabled=False and
\* the debug_log it gave to pack: none if pack delivered no event, else a
\* callback, which returned for every event of pack and may raise now
SolveReopt ==
  /\ runs.run.pc = "done"
  /\ IsNone(runs.result)
  /\ \E debug_log \in {d \in DebugLogs : IsNone(d) <=> runs.run.delivered = <<>>} :
       runs' = [runs EXCEPT !.result = Some([cfg |-> [enabled |-> FALSE, max_iters |-> 20],
                                             out |-> reopt(PlanOf(runs.run), debug_log,
                                                           [enabled |-> FALSE,
                                                            max_iters |-> 20])]),
                            !.caller = "solve"]
  /\ UNCHANGED <<SETTINGS, pc, items, vehicle, mode, items_by_id, remaining, placed, unplaced, free_rects,
                 loads, debug, delivered, status, iter, last, placedFrom, reserved, heap>>

\* reopt called directly on the plan pack returned, with any configuration and
\* any debug_log
ReoptCall ==
  /\ runs.run.pc = "done"
  /\ IsNone(runs.result)
  /\ \E cfg \in ReoptConfigs, debug_log \in DebugLogs :
       runs' = [runs EXCEPT !.result = Some([cfg |-> cfg,
                                             out |-> reopt(PlanOf(runs.run), debug_log, cfg)]),
                            !.caller = "reopt"]
  /\ UNCHANGED <<SETTINGS, pc, items, vehicle, mode, items_by_id, remaining, placed, unplaced, free_rects,
                 loads, debug, delivered, status, iter, last, placedFrom, reserved, heap>>

NextSolve ==
  \/ SolvePack
  \/ SolveReopt
  \/ ReoptCall

SpecSolve == InitSolve /\ [][NextSolve]_vars

\* C21: whenever reopt returns, with enabled=False or enabled=True, called by
\* solve or directly, the plan it returns is the plan pack produced: the same
\* placed units with their poses, unplaced units, loads, mode and event trail
C21_ReoptPassThrough ==
  (pc = "solve" /\ ~IsNone(runs.result) /\ ~Val(runs.result).out.raised)
    => Val(Val(runs.result).out.plan) = PlanOf(runs.run)

\* reopt returned with enabled=True, after telling a callback its two events, on
\* a plan with two placed units
C21_Witness ==
  /\ pc = "solve"
  /\ ~IsNone(runs.result)
  /\ ~Val(runs.result).out.raised
  /\ runs.caller = "reopt"
  /\ Val(runs.result).cfg.enabled
  /\ Len(Val(runs.result).out.delivered) = 2
  /\ Len(runs.run.placed) >= 2

\* the run V has placed an oversize-class unit whose centre lies in zone D
OversizeInD(V) ==
  \E k \in DOMAIN V.placed :
    /\ item_class(V.placed[k].item, V.vehicle.innerWidth) = "oversize"
    /\ zone_for_z(V.placed[k].z, V.vehicle, DEFAULT_ZONES) = "D"

\* C22: with POLICY_HARD_OVERSIZE_IN_D enabled in the configuration pack never
\* commits an oversize-class unit whose centre lies in zone D, as a single or in
\* a pattern group; with the default configuration no pattern group is rejected
\* for the rule
C22_HardRuleOversizeInD ==
  pc = "solve"
    => /\ SETTINGS.POLICY_HARD_OVERSIZE_IN_D => ~OversizeInD(runs.run)
       /\ SETTINGS = DefaultSettings
            => \A k \in DOMAIN runs.run.debug :
                 runs.run.debug[k].evt = "pattern_rejected"
                   => runs.run.debug[k].reason # "policy_hard"

\* the vehicle v has both axle positions, and they differ
HasAxleModel(v) ==
  /\ ~IsNone(v.axleAPosFromHeadM) /\ ~IsNone(v.axleBPosFromHeadM)
  /\ Val(v.axleAPosFromHeadM) # Val(v.axleBPosFromHeadM)

\* the sum over the placed units of V of weight * (x - a), x = z + innerLength / 2
LeverSum(V) ==
  SumSeq([k \in DOMAIN V.placed |->
            V.placed[k].item.weight
              * ((V.placed[k].z + V.vehicle.innerLength \div 2)
                   - Val(V.vehicle.axleAPosFromHeadM))])

\* C29: in a run of pack with units placed, with both axle positions configured
\* and different the load of axle B is the sum of weight * (x - a) / (b - a) and
\* the two axle loads add up to the payload; with a position missing or both
\* equal the two axle loads are 0 and no unit of the run, added to the placed
\* ones, is refused for another reason than the payload limit
C29_LeverArmSplit ==
  (pc = "solve" /\ runs.run.placed # <<>>)
    => /\ Val(runs.run.loads).payload_kg
            = SumSeq([k \in DOMAIN runs.run.placed |-> runs.run.placed[k].item.weight])
       /\ HasAxleModel(runs.run.vehicle)
            => /\ Val(runs.run.loads).axleB_kg.d
                    = Val(runs.run.vehicle.axleBPosFromHeadM)
                        - Val(runs.run.vehicle.axleAPosFromHeadM)
               /\ Val(runs.run.loads).axleA_kg.d = Val(runs.run.loads).axleB_kg.d
               /\ Val(runs.run.loads).axleB_kg.n = LeverSum(runs.run)
               /\ Val(runs.run.loads).axleA_kg.n + Val(runs.run.loads).axleB_kg.n
                    = Val(runs.run.loads).payload_kg * Val(runs.run.loads).axleB_kg.d
       /\ ~HasAxleModel(runs.run.vehicle)
            => /\ Val(runs.run.loads).axleA_kg.n = 0
               /\ Val(runs.run.loads).axleB_kg.n = 0
               /\ \A k \in DOMAIN runs.run.items :
                    check_loads(compute_loads(Append(runs.run.placed,
                                                     [item |-> runs.run.items[k], z |-> 0]),
                                              runs.run.vehicle),
                                runs.run.vehicle)[2] \in {<<>>, <<"payload_limit">>}

\* two units are placed in the hold with the two-axle model, and both axles
\* carry a part of their weight
C29_Witness ==
  /\ pc = "solve"
  /\ Len(runs.run.placed) = 2
  /\ HasAxleModel(runs.run.vehicle)
  /\ Val(runs.run.loads).axleA_kg.n > 0
  /\ Val(runs.run.loads).axleB_kg.n > 0

-----------------------------------------------------------------------------
(* The pattern generators on their own: a window of units, one free        *)
(* rectangle, and calls of gen_3across, gen_140plus80, gen_3plus2 and       *)
(* gen_zigzag as generate_floor_candidates makes them.  items is the        *)
(* window, free_rects holds the rectangle, last records the call.           *)

\* bound: number of standard-class units in the window
MaxStdPool == 16

\* bound: number of 140x120 units in the window
MaxBigPool == 12

\* the kinds of a window of nS standard-class units (80x120, 120x80 and 82x120
\* in turn) and nB units 140x120, with a box in front: the standard-class units
\* first, the big ones first, or the two classes in turn
WindowKinds(nS, nB, layout) ==
  LET stds == [k \in 1..nS |-> <<1, 2, 3>>[((k - 1) % 3) + 1]]
      bigs == [k \in 1..nB |-> 4]
      Turn(k) == (IF k <= nS THEN <<stds[k]>> ELSE <<>>) \o (IF k <= nB THEN <<4>> ELSE <<>>)
  IN  <<5>> \o (IF layout = "std_first" THEN stds \o bigs
                ELSE IF layout = "big_first" THEN bigs \o stds
                ELSE Concat([k \in 1..Max(nS, nB) |-> Turn(k)]))

GenWindows ==
  {MakeItems(WindowKinds(nS, nB, layout)) :
     nS \in 0..MaxStdPool, nB \in 0..MaxBigPool, layout \in {"std_first", "big_first", "in_turn"}}

\* the free rectangles: the floor of a hold 2.4 x 5.0, a strip one 3-across
\* deep, and a strip 2.2 wide
GenRects == { <<-120, 120, -250, 250>>, <<-120, 120, 0, 120>>, <<-110, 110, 0, 200>> }

InitGen ==
  /\ pc = "gen"
  /\ items \in GenWindows
  /\ free_rects \in {<<r>> : r \in GenRects}
  /\ last = NoLast
  /\ vehicle = <<>> /\ mode = None /\ items_by_id = <<>> /\ remaining = <<>>
  /\ placed = <<>> /\ unplaced = <<>> /\ loads = None /\ debug = <<>> /\ delivered = <<>>
  /\ status = <<>> /\ iter = 0 /\ placedFrom = <<>> /\ reserved = {} /\ runs = <<>>
  /\ heap = <<>> /\ SETTINGS = DefaultSettings

\* what a call of a generator leaves in last
GenCall(kind, z_anchor, packs) ==
  /\ last' = [kind |-> kind, rect |-> free_rects[1], z_anchor |-> z_anchor, packs |-> packs]
  /\ UNCHANGED <<SETTINGS, pc, items, vehicle, mode, items_by_id, remaining, placed, unplaced,
                 free_rects, loads, debug, delivered, status, iter, placedFrom, reserved,
                 runs, heap>>

\* generators.py lines 73, 82-83
Gen3across ==
  /\ pc = "gen"
  /\ \E z0 \in Range(_z_anchors_for_len(free_rects[1], PATTERN_3ACROSS_Z)) :
       GenCall("gen_3across", z0,
               gen_3across(free_rects[1], SelectSeq(items, is_std_80x120), z0))

\* generators.py lines 73-74, 90-91
Gen140plus80 ==
  /\ pc = "gen"
  /\ \E z0 \in Range(_z_anchors_for_len(free_rects[1], PATTERN_140P80_Z)) :
       GenCall("gen_140plus80", z0,
               gen_140plus80(free_rects[1], SelectSeq(items, is_140x120),
                             SelectSeq(items, is_std_80x120), z0))

\* generators.py lines 73, 98-99
Gen3plus2 ==
  /\ pc = "gen"
  /\ \E z0 \in Range(_z_anchors_for_len(free_rects[1], PATTERN_3P2_Z)) :
       GenCall("gen_3plus2", z0,
               gen_3plus2(free_rects[1], SelectSeq(items, is_std_80x120), z0))

\* generators.py lines 73, 106-107
GenZigzag ==
  /\ pc = "gen"
  /\ \E z0 \in Range(_z_anchors_for_len(free_rects[1], PATTERN_ZIGZAG_Z)) :
       GenCall("gen_zigzag", z0,
               gen_zigzag(free_rects[1], SelectSeq(items, is_std_80x120), z0))

NextGen == Gen3across \/ Gen140plus80 \/ Gen3plus2 \/ GenZigzag

SpecGen == InitGen /\ [][NextGen]_vars

\* the window positions of the units of a size class, in incoming order
ClassPositions(InClass(_)) ==
  LET RECURSIVE From(_)
      From(k) == IF k > Len(items) THEN <<>>
                 ELSE (IF InClass(items[k]) THEN <<k>> ELSE <<>>) \o From(k + 1)
  IN  From(1)

StdPositions == ClassPositions(is_std_80x120)

BigPositions == ClassPositions(is_140x120)

\* the first n entries of a list of positions, as a set
Leading(ps, n) == {ps[k] : k \in 1..(IF Len(ps) < n THEN Len(ps) ELSE n)}

\* a generator has been called
GenCalled == pc = "gen" /\ last # NoLast

\* the most packs one call of the generator may yield
VariantCap ==
  IF last.kind = "gen_3across" THEN 6
  ELSE IF last.kind = "gen_140plus80" THEN 20
  ELSE 8

\* the window positions of the members of pack p, in the order of the pack (a
\* unit's id is its position in the window)
MemberPositions(p) == [k \in DOMAIN p |-> p[k].itemId]

\* pack p takes its standard-class units in incoming order
InIncomingOrder(p) ==
  LET ps == MemberPositions(p)
      first == IF last.kind = "gen_140plus80" THEN 2 ELSE 1
  IN  \A i, j \in first..Len(ps) : i < j => ps[i] < ps[j]

\* C34: the generators keep the incoming order of the filtered lists and use a
\* bounded prefix.  Every standard-class member of a pack is one of the first 14
\* standard-class units of the window and every 140x120 member one of its first
\* 10 units 140x120; the members of a pack are in incoming order, the first pack
\* is made of the leading units of the window, and the packs of 140-plus-80 come
\* in the order of their big and then their standard unit; one call yields at
\* most 6 packs of 3-across, 8 of 3-plus-2, 8 of zigzag and 20 of 140-plus-80
C34_PoolsKeepOrderAndPrefix ==
  GenCalled
    => /\ Len(last.packs) <= VariantCap
       /\ \A k \in DOMAIN last.packs :
            /\ InIncomingOrder(last.packs[k])
            /\ \A j \in DOMAIN last.packs[k] :
                 IF last.kind = "gen_140plus80" /\ j = 1
                 THEN last.packs[k][j].itemId \in Leading(BigPositions, 10)
                 ELSE last.packs[k][j].itemId \in Leading(StdPositions, 14)
       /\ (last.kind # "gen_140plus80" /\ last.packs # <<>>)
            => MemberPositions(last.packs[1])
                 = SubSeq(StdPositions, 1, Len(last.packs[1]))
       /\ last.kind = "gen_140plus80"
            => \A a, b \in DOMAIN last.packs :
                 a < b => \/ last.packs[a][1].itemId < last.packs[b][1].itemId
                          \/ /\ last.packs[a][1].itemId = last.packs[b][1].itemId
                             /\ last.packs[a][2].itemId < last.packs[b][2].itemId

\* a call of gen_140plus80 on a window with more than 14 standard-class and more
\* than 10 big units, the two classes in turn, that stopped at 20 packs
C34_Witness ==
  /\ GenCalled
  /\ last.kind = "gen_140plus80"
  /\ Len(StdPositions) > 14
  /\ Len(BigPositions) > 10
  /\ StdPositions[1] < BigPositions[1] /\ BigPositions[1] < StdPositions[2]
  /\ Len(last.packs) = 20

-----------------------------------------------------------------------------
(* pack on units whose ids repeat: fetch_task_rows passes rows with the     *)
(* same id on, so two or more units of the input may carry one id.          *)

\* bound: number of units handed to pack when ids repeat
MaxItemsDup == 3

\* the ways to give n units ids of which at least one repeats: every id is 1 or
\* the id of an earlier unit plus 1 at most
RepeatedIds(n) ==
  {f \in [1..n -> 1..n] :
     /\ \A k \in 1..n : f[k] = 1 \/ \E j \in 1..(k - 1) : f[j] >= f[k] - 1
     /\ \E i, j \in 1..n : i # j /\ f[i] = f[j]}

\* the unit list of a sequence of kinds with the ids ids
MakeItemsWithIds(ks, ids) == [k \in DOMAIN ks |-> [MakeItems(ks)[k] EXCEPT !.id = ids[k]]]

DupItemLists ==
  UNION {{MakeItemsWithIds(ks, ids) : ids \in RepeatedIds(Len(ks))} :
           ks \in {f \in UNION {[1..n -> DOMAIN ItemKinds] : n \in 2..MaxItemsDup} :
                     /\ \A k \in 1..(Len(f) - 1) : f[k] <= f[k + 1]
                     /\ Cardinality(Range(f)) <= MaxKinds}}

InitDup ==
  /\ pc = "init"
  /\ items \in DupItemLists
  /\ vehicle \in Vehicles
  /\ status = [k \in DOMAIN items |-> "ok"]
  /\ mode = None /\ items_by_id = <<>> /\ remaining = <<>> /\ placed = <<>>
  /\ unplaced = <<>> /\ free_rects = <<>> /\ loads = None /\ debug = <<>>
  /\ delivered = <<>> /\ iter = 0 /\ last = NoLast /\ placedFrom = <<>>
  /\ reserved = {} /\ runs = <<>> /\ heap = <<>> /\ SETTINGS = DefaultSettings

SpecDup == InitDup /\ [][Next]_vars

\* C36: when two or more units of the input carry the same id, the returned
\* plan still accounts for every unit: the placed entries and the unplaced
\* entries together are as many as the input units
C36_NoUnitDroppedWhenIdsRepeat ==
  pc = "done" => Len(placed) + Len(unplaced) = Len(items)

-----------------------------------------------------------------------------
(* prune_contained on its own: any list of rectangles, two equal ones       *)
(* included, pruned once.                                                   *)

\* bound: length of the list handed to prune_contained
MaxPruneLen == 3

\* every list of at most MaxPruneLen rectangles of positive area with corners
\* on the grid 0..2 x 0..2; a rectangle may occur more than once
PruneInputs ==
  LET Rects == {r \in (0..2) \X (0..2) \X (0..2) \X (0..2) : r[1] < r[2] /\ r[3] < r[4]}
  IN  UNION {[1..n -> Rects] : n \in 0..MaxPruneLen}

InitPrune ==
  /\ pc = "prune"
  /\ free_rects \in PruneInputs
  /\ last = NoLast
  /\ items = <<>> /\ vehicle = <<>> /\ mode = None /\ items_by_id = <<>> /\ remaining = <<>>
  /\ placed = <<>> /\ unplaced = <<>> /\ loads = None /\ debug = <<>> /\ delivered = <<>>
  /\ status = <<>> /\ iter = 0 /\ placedFrom = <<>> /\ reserved = {} /\ runs = <<>>
  /\ heap = <<>> /\ SETTINGS = DefaultSettings

\* rects = prune_contained(rects); last keeps the list that was passed
Prune ==
  /\ pc = "prune"
  /\ pc' = "pruned"
  /\ free_rects' = prune_contained(free_rects)
  /\ last' = [kind |-> "prune", rects |-> free_rects]
  /\ UNCHANGED <<SETTINGS, items, vehicle, mode, items_by_id, remaining, placed, unplaced,
                 loads, debug, delivered, status, iter, placedFrom, reserved, runs, heap>>

SpecPrune == InitPrune /\ [][Prune]_vars

\* C40: prune_contained keeps the covered area: every rectangle of the list
\* passed in is contained in some rectangle of the list returned, also when
\* the list passed in holds the same rectangle twice
C40_PruneKeepsCover ==
  pc = "pruned"
    => \A k \in DOMAIN last.rects :
         \E j \in DOMAIN free_rects : rect_contains(free_rects[j], last.rects[k])

====
